---- MODULE Spec2Model ----
(***************************************************************************)
(* Model of the qUSD x402 facilitator: the hand-written verify / settle    *)
(* handlers (handlers/verify.ts, handlers/settle.ts, verifyService.ts,     *)
(* qieService.ts) and the two gas-injecting client wrappers of the         *)
(* framework variant (index.ts, client.ts), running against a remote       *)
(* ledger that executes submitted transfers some time after submission.    *)
(***************************************************************************)
EXTENDS Integers, Sequences, FiniteSets, TLC

\* ------------------------------------------------------------------ bounds
\* The clock runs over 0..MaxTime seconds.
MaxTime == 2
\* Token balances range over 0..MaxBalance.
MaxBalance == 2

\* ------------------------------------------------------- program constants
\* index.ts: const FIXED_GAS_LIMIT = 1_000_000n
FIXED_GAS_LIMIT == 1000000
\* What the QIE node's eth_estimateGas answers for every call shape.
QIE_GAS_ESTIMATE == 24000
\* Gas an EIP-3009 transferWithAuthorization needs to execute.
TRANSFER_GAS_NEEDED == 100000
\* config.ts: qieChain id
QIE_CHAIN_ID == 1990

\* ---------------------------------------------------------------- strings
\* An address string is a 20-byte value written in hex; only its identity
\* and its letter case matter here.  mixed = TRUE is the checksummed
\* (mixed-case) spelling, mixed = FALSE the all-lowercase spelling.
Addr(id, mixed) == [id |-> id, mixed |-> mixed]

\* String.prototype.toLowerCase on an address string.
toLowerCase(a) == [a EXCEPT !.mixed = FALSE]

\* A numeric string (value, validAfter, validBefore, amount) is a sequence of
\* characters, <<"1", "0">> for "10".

DecDigits == <<"0", "1", "2", "3", "4", "5", "6", "7", "8", "9">>
HexDigits == DecDigits \o <<"a", "b", "c", "d", "e", "f">>

\* The value of character ch as a digit of the given radix, or -1.
DigitValue(ch, radix) ==
    LET ds == SubSeq(HexDigits, 1, radix)
        hit == {i \in 1..Len(ds) : ds[i] = ch}
    IN  IF hit = {} THEN -1 ELSE (CHOOSE i \in hit : TRUE) - 1

RECURSIVE SkipLeadingSpace(_)
SkipLeadingSpace(s) ==
    IF Len(s) > 0 /\ Head(s) = " " THEN SkipLeadingSpace(Tail(s)) ELSE s

RECURSIVE SkipTrailingSpace(_)
SkipTrailingSpace(s) ==
    IF Len(s) > 0 /\ s[Len(s)] = " "
    THEN SkipTrailingSpace(SubSeq(s, 1, Len(s) - 1)) ELSE s

\* The longest prefix of s made of digits of the radix.
RECURSIVE DigitPrefix(_, _)
DigitPrefix(s, radix) ==
    IF Len(s) > 0 /\ DigitValue(Head(s), radix) >= 0
    THEN <<Head(s)>> \o DigitPrefix(Tail(s), radix)
    ELSE <<>>

\* The number a non-empty digit sequence denotes.
RECURSIVE DigitsToNat(_, _)
DigitsToNat(ds, radix) ==
    IF Len(ds) = 0 THEN 0
    ELSE DigitsToNat(SubSeq(ds, 1, Len(ds) - 1), radix) * radix
         + DigitValue(ds[Len(ds)], radix)

AllDigits(s, radix) == \A i \in 1..Len(s) : DigitValue(s[i], radix) >= 0

HasPrefix(s, a, b) == Len(s) >= 2 /\ s[1] = a /\ s[2] = b

\* A JavaScript number: NaN, or an integer n.
NaN == [nan |-> TRUE, n |-> 0]
Number(n) == [nan |-> FALSE, n |-> n]

\* parseInt(string) with no radix argument: leading white space and a sign
\* are skipped, a 0x prefix selects radix 16, the longest digit prefix is
\* read and anything after it is ignored; no digit at all gives NaN.
parseInt(str) ==
    LET s0 == SkipLeadingSpace(str)
        neg == Len(s0) > 0 /\ Head(s0) = "-"
        s1 == IF Len(s0) > 0 /\ Head(s0) \in {"-", "+"} THEN Tail(s0) ELSE s0
        hex == HasPrefix(s1, "0", "x")
        s2 == IF hex THEN SubSeq(s1, 3, Len(s1)) ELSE s1
        radix == IF hex THEN 16 ELSE 10
        ds == DigitPrefix(s2, radix)
    IN  IF Len(ds) = 0 THEN NaN
        ELSE IF neg THEN Number(0 - DigitsToNat(ds, radix))
        ELSE Number(DigitsToNat(ds, radix))

\* The outcome of BigInt(string): a thrown SyntaxError, or the bigint n.
SyntaxError == [thrown |-> TRUE, n |-> 0]
BigIntValue(n) == [thrown |-> FALSE, n |-> n]

\* BigInt(string): white space is trimmed on both sides; the empty string
\* is 0n; 0x / 0o / 0b select a radix (no sign allowed with them); otherwise
\* an optionally signed run of decimal digits; anything else throws.
BigInt(str) ==
    LET s == SkipTrailingSpace(SkipLeadingSpace(str))
        signed == Len(s) > 0 /\ Head(s) \in {"-", "+"}
        body == IF signed THEN Tail(s) ELSE s
        radix == IF HasPrefix(s, "0", "x") THEN 16
                 ELSE IF HasPrefix(s, "0", "o") THEN 8
                 ELSE IF HasPrefix(s, "0", "b") THEN 2 ELSE 10
    IN  IF Len(s) = 0 THEN BigIntValue(0)
        ELSE IF radix # 10
        THEN LET ds == SubSeq(s, 3, Len(s))
             IN  IF Len(ds) > 0 /\ AllDigits(ds, radix)
                 THEN BigIntValue(DigitsToNat(ds, radix)) ELSE SyntaxError
        ELSE IF Len(body) > 0 /\ AllDigits(body, 10)
        THEN IF Head(s) = "-" THEN BigIntValue(0 - DigitsToNat(body, 10))
             ELSE BigIntValue(DigitsToNat(body, 10))
        ELSE SyntaxError

\* JavaScript's < and >= on numbers: every comparison with NaN is false.
NumLt(a, b) == ~a.nan /\ ~b.nan /\ a.n < b.n
NumGe(a, b) == ~a.nan /\ ~b.nan /\ a.n >= b.n

\* ----------------------------------------------------------- configuration
\* config.networkId, config.scheme, config.qusdContractAddress and the
\* EIP-712 domain verifyPayment builds from the configuration.
ConfigNetworkId == "eip155:1990"
ConfigScheme == "exact"
QusdContractAddress == Addr("cc", TRUE)
Domain ==
    [name |-> "qUSD", version |-> "1", chainId |-> QIE_CHAIN_ID,
     verifyingContract |-> toLowerCase(QusdContractAddress)]

\* ------------------------------------------------------------- signatures
\* A signature is a hex blob.  Its first 64 bytes are r and s, which are
\* what a key holder produced over a typed-data digest: the signer, the
\* (domain, message) signed and the recovery parity that goes with them.
\* rsLen is how many of those 64 bytes the blob has, vbyte is byte 64 as
\* written on the wire (-1 when the blob ends before it; 0/1 or 27/28 for a
\* well-formed blob) and extra the bytes after byte 64.
SignatureBlob(signer, signed, parity, rsLen, tail) ==
    [signer |-> signer, signed |-> signed, parity |-> parity,
     rsLen |-> rsLen,
     vbyte |-> IF Len(tail) = 0 THEN -1 ELSE Head(tail),
     extra |-> IF Len(tail) = 0 THEN <<>> ELSE Tail(tail)]

\* The well-formed 65-byte blob r, s, v.
Signature(signer, signed, parity, vbyte) ==
    SignatureBlob(signer, signed, parity, 64, <<vbyte>>)

\* The number of bytes of the blob.
SignatureLength(sig) ==
    sig.rsLen + (IF sig.vbyte = -1 THEN 0 ELSE 1 + Len(sig.extra))

\* The number a sequence of bytes denotes, big-endian.
RECURSIVE BytesToNat(_)
BytesToNat(bytes) ==
    IF Len(bytes) = 0 THEN 0
    ELSE BytesToNat(SubSeq(bytes, 1, Len(bytes) - 1)) * 256 + bytes[Len(bytes)]

\* viem's recovery reads everything after the first 64 bytes as one
\* number, yParityOrV = hexToNumber(signature.slice(130)).
YParityOrV(sig) == BytesToNat(<<sig.vbyte>> \o sig.extra)

NoAddr == Addr("none", FALSE)
\* The address a recovery yields when the digest or parity is not the one
\* that was signed: some address unrelated to every account of the model.
StrangerAddr == Addr("stranger", TRUE)

\* The typed-data message verifyPayment builds (lines 47-54): addresses and
\* the nonce as given, the three numbers through BigInt.
TypedMessage(auth) ==
    [from |-> toLowerCase(auth.from).id, to |-> toLowerCase(auth.to).id,
     value |-> BigInt(auth.value).n,
     validAfter |-> BigInt(auth.validAfter).n,
     validBefore |-> BigInt(auth.validBefore).n,
     nonce |-> auth.nonce]

\* Building the message throws when a BigInt() throws, or when a number
\* does not fit uint256 (negative).
MessageThrows(auth) ==
    \E f \in {auth.value, auth.validAfter, auth.validBefore} :
        BigInt(f).thrown \/ BigInt(f).n < 0

\* Recovery parity of yParityOrV: 0/27 -> 0, 1/28 -> 1, else invalid (-1).
YParity(vbyte) ==
    IF vbyte \in {0, 27} THEN 0 ELSE IF vbyte \in {1, 28} THEN 1 ELSE -1

\* recoverTypedDataAddress: elliptic-curve recovery over the digest of
\* (domain, message), from the first 64 bytes and the parity read from the
\* rest.  It returns the signer's checksummed address when the signature
\* was made over this digest with this parity, some other address
\* otherwise.
recoverTypedDataAddress(domain, message, sig) ==
    IF sig.signed = [domain |-> domain, message |-> message]
       /\ YParity(YParityOrV(sig)) = sig.parity
    THEN Addr(sig.signer, TRUE)
    ELSE StrangerAddr

\* The recovery throws when the blob has no 64 bytes of r and s, when
\* nothing follows them, or when what follows is no recovery id.
RecoverThrows(sig) ==
    \/ sig.rsLen < 64
    \/ sig.vbyte = -1
    \/ YParity(YParityOrV(sig)) = -1

\* --------------------------------------------------------------- requests
Authorization(from, to, value, validAfter, validBefore, nonce) ==
    [from |-> from, to |-> to, value |-> value, validAfter |-> validAfter,
     validBefore |-> validBefore, nonce |-> nonce]

PaymentRequirements(asset, amount, payTo, network, maxTimeoutSeconds) ==
    [scheme |-> "exact", network |-> network, asset |-> asset,
     amount |-> amount, payTo |-> payTo,
     maxTimeoutSeconds |-> maxTimeoutSeconds]

\* A request body: the endpoint it is posted to, whether the body parses as
\* JSON, the payment payload (scheme, network, signature, authorization) and
\* the requirements.
Request(endpoint, scheme, network, sig, auth, requirements) ==
    [endpoint |-> endpoint, json |-> TRUE,
     payload |-> [x402Version |-> 2, scheme |-> scheme, network |-> network,
                  payload |-> [signature |-> sig, authorization |-> auth]],
     requirements |-> requirements]

\* verifyRequestSchema / settleRequestSchema .safeParse: of the fields the
\* model can vary, the schema constrains the two scheme literals.
SchemaAccepts(body) ==
    body.payload.scheme = "exact" /\ body.requirements.scheme = "exact"

\* ---------------------------------------------------------------- results
\* VerificationResult of verifyPayment.
Valid(payer) == [isValid |-> TRUE, payer |-> payer, invalidReason |-> <<>>]
Invalid(reason) ==
    [isValid |-> FALSE, payer |-> NoAddr, invalidReason |-> reason]
NoResult == Invalid(<<"none">>)

\* A check either returns a result or falls through to the next check.
Return(result) == [returned |-> TRUE, value |-> result]
FallThrough == [returned |-> FALSE, value |-> NoResult]

\* The reason strings, without the values interpolated into them.
SignerMismatch == <<"Signer mismatch">>
NotYetValid == <<"Authorization not yet valid">>
Expired == <<"Authorization has expired">>
NonceUsed == <<"Nonce has already been used">>
InsufficientBalance == <<"Insufficient balance">>
AmountTooLow == <<"Authorization amount is less than required">>
RecipientMismatch == <<"Recipient mismatch">>
AssetMismatch == <<"Asset mismatch">>
VerificationError(cause) == <<"Verification error", cause>>

\* An HTTP response.  ok is isValid of a VerifyResponse and success of a
\* SettleResponse; reason is invalidReason / errorReason.
NoTx == <<>>
NoResponse ==
    [status |-> 0, ok |-> FALSE, reason |-> <<>>, payer |-> NoAddr,
     transaction |-> NoTx, network |-> "none"]
VerifyResponse(status, result) ==
    [status |-> status, ok |-> result.isValid, reason |-> result.invalidReason,
     payer |-> result.payer, transaction |-> NoTx, network |-> "none"]
\* { isValid: false, invalidReason } or { success: false, errorReason }.
Rejection(status, reason) ==
    [status |-> status, ok |-> FALSE, reason |-> reason, payer |-> NoAddr,
     transaction |-> NoTx, network |-> "none"]
\* (mutant) the success body without the transaction.
SettleSuccess_NoTransaction(txHash, payer) ==
    [status |-> 200, ok |-> TRUE, reason |-> <<>>, payer |-> payer,
     transaction |-> NoTx, network |-> ConfigNetworkId]

SettleSuccess(txHash, payer) ==
    [status |-> 200, ok |-> TRUE, reason |-> <<>>, payer |-> payer,
     transaction |-> txHash, network |-> ConfigNetworkId]

\* ------------------------------------------------------- the check pipeline
\* (mutant) the comparison without toLowerCase.
CheckSigner_CaseSensitive(auth, recovered) ==
    IF recovered # auth.from
    THEN Return(Invalid(SignerMismatch))
    ELSE FallThrough

\* verifyPayment line 59: the recovered signer against authorization.from.
CheckSigner(auth, recovered) ==
    IF toLowerCase(recovered) # toLowerCase(auth.from)
    THEN Return(Invalid(SignerMismatch))
    ELSE FallThrough

\* (mutant) now > validBefore instead of now >= validBefore.
CheckTime_InclusiveUpper(auth, t) ==
    LET validAfter == parseInt(auth.validAfter)
        validBefore == parseInt(auth.validBefore)
    IN  IF NumLt(Number(t), validAfter) THEN Return(Invalid(NotYetValid))
        ELSE IF NumLt(validBefore, Number(t)) THEN Return(Invalid(Expired))
        ELSE FallThrough

\* verifyPayment lines 67-83: now against parseInt of the two bounds.
CheckTime(auth, t) ==
    LET validAfter == parseInt(auth.validAfter)
        validBefore == parseInt(auth.validBefore)
    IN  IF NumLt(Number(t), validAfter) THEN Return(Invalid(NotYetValid))
        ELSE IF NumGe(Number(t), validBefore) THEN Return(Invalid(Expired))
        ELSE FallThrough

\* (mutant) the nonce state is read and not acted on.
CheckNonce_Skipped(nonceUsed) == FallThrough

\* verifyPayment lines 91-96.
CheckNonce(nonceUsed) ==
    IF nonceUsed THEN Return(Invalid(NonceUsed)) ELSE FallThrough

\* (mutant) the recipient check moved before the amount check.
ChecksAfterBalance_RecipientFirst(auth, requirements, balance, recovered) ==
    LET requiredAmount == BigInt(requirements.amount)
        authAmount == BigInt(auth.value)
    IN  IF requiredAmount.thrown
        THEN Invalid(VerificationError("SyntaxError"))
        ELSE IF balance < requiredAmount.n THEN Invalid(InsufficientBalance)
        ELSE IF toLowerCase(auth.to) # toLowerCase(requirements.payTo)
        THEN Invalid(RecipientMismatch)
        ELSE IF authAmount.n < requiredAmount.n THEN Invalid(AmountTooLow)
        ELSE IF toLowerCase(requirements.asset)
                # toLowerCase(QusdContractAddress)
        THEN Invalid(AssetMismatch)
        ELSE Valid(recovered)

\* (mutant) recipient and asset are compared as they are written.
ChecksAfterBalance_CaseSensitive(auth, requirements, balance, recovered) ==
    LET requiredAmount == BigInt(requirements.amount)
        authAmount == BigInt(auth.value)
    IN  IF requiredAmount.thrown
        THEN Invalid(VerificationError("SyntaxError"))
        ELSE IF balance < requiredAmount.n THEN Invalid(InsufficientBalance)
        ELSE IF authAmount.n < requiredAmount.n THEN Invalid(AmountTooLow)
        ELSE IF auth.to # requirements.payTo
        THEN Invalid(RecipientMismatch)
        ELSE IF requirements.asset # QusdContractAddress
        THEN Invalid(AssetMismatch)
        ELSE Valid(recovered)

\* (mutant) the balance has to cover the authorization's value.
ChecksAfterBalance_CoversValue(auth, requirements, balance, recovered) ==
    LET requiredAmount == BigInt(requirements.amount)
        authAmount == BigInt(auth.value)
    IN  IF requiredAmount.thrown
        THEN Invalid(VerificationError("SyntaxError"))
        ELSE IF balance < authAmount.n THEN Invalid(InsufficientBalance)
        ELSE IF authAmount.n < requiredAmount.n THEN Invalid(AmountTooLow)
        ELSE IF toLowerCase(auth.to) # toLowerCase(requirements.payTo)
        THEN Invalid(RecipientMismatch)
        ELSE IF toLowerCase(requirements.asset)
                # toLowerCase(QusdContractAddress)
        THEN Invalid(AssetMismatch)
        ELSE Valid(recovered)

\* (mutant) the pipeline without the asset check.
ChecksAfterBalance_NoAsset(auth, requirements, balance, recovered) ==
    LET requiredAmount == BigInt(requirements.amount)
        authAmount == BigInt(auth.value)
    IN  IF requiredAmount.thrown
        THEN Invalid(VerificationError("SyntaxError"))
        ELSE IF balance < requiredAmount.n THEN Invalid(InsufficientBalance)
        ELSE IF authAmount.n < requiredAmount.n THEN Invalid(AmountTooLow)
        ELSE IF toLowerCase(auth.to) # toLowerCase(requirements.payTo)
        THEN Invalid(RecipientMismatch)
        ELSE Valid(recovered)

\* verifyPayment lines 100-141, after the balance has been read: balance,
\* authorization amount, recipient, asset, then valid.
ChecksAfterBalance(auth, requirements, balance, recovered) ==
    LET requiredAmount == BigInt(requirements.amount)
        authAmount == BigInt(auth.value)
    IN  IF requiredAmount.thrown
        THEN Invalid(VerificationError("SyntaxError"))
        ELSE IF balance < requiredAmount.n THEN Invalid(InsufficientBalance)
        ELSE IF authAmount.n < requiredAmount.n THEN Invalid(AmountTooLow)
        ELSE IF toLowerCase(auth.to) # toLowerCase(requirements.payTo)
        THEN Invalid(RecipientMismatch)
        ELSE IF toLowerCase(requirements.asset)
                # toLowerCase(QusdContractAddress)
        THEN Invalid(AssetMismatch)
        ELSE Valid(recovered)

\* (mutant) v is taken from the wire as it is.
parseSignature_Unnormalized(sig) ==
    [v |-> IF sig.vbyte = -1 THEN NaN ELSE Number(sig.vbyte),
     rs |-> [signer |-> sig.signer, signed |-> sig.signed,
             parity |-> sig.parity, len |-> sig.rsLen]]

\* parseSignature (settle.ts lines 10-29): r and s are what the blob has of
\* its first 64 bytes, v is parseInt of byte 64 (NaN when the blob has
\* none), raised by 27 when below 27.  Bytes after byte 64 are not looked
\* at, and no length is checked.
parseSignature(sig) ==
    LET byte == IF sig.vbyte = -1 THEN NaN ELSE Number(sig.vbyte)
    IN  [v |-> IF NumLt(byte, Number(27)) THEN Number(byte.n + 27) ELSE byte,
         rs |-> [signer |-> sig.signer, signed |-> sig.signed,
                 parity |-> sig.parity, len |-> sig.rsLen]]

\* ------------------------------------------------------------------ state
Calls == {"c1", "c2"}
PayerIds == {"aa"}
Nonces == {"n1"}
Pairs == PayerIds \X Nonces

VARIABLES
    now,            \* the clock, in seconds (Date.now() / 1000)
    balanceOf,      \* ledger: token balance of each payer
    consumedBy,     \* ledger: authorizationState, with who consumed the pair
    pool,           \* ledger: transactions submitted and not yet executed
    walletClient,   \* "configured" or "null" (no FACILITATOR_PRIVATE_KEY)
    calls,          \* the requests being served, one record per call
    split,          \* parseSignature called on its own: <<[sig, out]>>
    framework,      \* the framework signer's last writeContract / sendTransaction
    supported       \* the answer to the last GET /supported

vars ==
    <<now, balanceOf, consumedBy, pool, walletClient, calls, split, framework,
      supported>>

\* What the framework's signer asked of its client and what came of it:
\* the client (via) and method, the request and the gas the caller put in
\* it, the answers eth_estimateGas gave on the way, the transaction sent,
\* and the cause of the error thrown back to the caller ("none": none).
FrameworkCall(via, method, request, callerGas, estimates, sent, thrown) ==
    [via |-> via, method |-> method, request |-> request,
     callerGas |-> callerGas, estimates |-> estimates, sent |-> sent,
     thrown |-> thrown]
NoFrameworkCall ==
    FrameworkCall("none", "none", {}, [given |-> FALSE, gas |-> 0], <<>>, {},
                  "none")

\* The answer to GET /supported: the status, the error member of an error
\* body, and the SupportedResponse body when there is one.
SupportedCall(status, error, body) ==
    [status |-> status, error |-> error, body |-> body]
NoSupportedCall == SupportedCall(0, "none", {})

\* A call that has not been made yet.
IdleCall ==
    [pc |-> "idle",
     req |-> [endpoint |-> "none"],
     recovered |-> NoAddr,       \* recoveredAddress
     time |-> -1,                \* now, as read at line 67
     nonceUsed |-> "unread",     \* the authorizationState read: "true" / "false"
     balance |-> -1,             \* the balanceOf read
     verifyResult |-> NoResult,
     gas |-> -1,                 \* the gas the write request carries
     estimated |-> FALSE,        \* eth_estimateGas was called
     response |-> NoResponse,
     \* the fault the call met in a library call or in I/O ("none": no
     \* fault), and how many times it called walletClient.writeContract
     fault |-> "none",
     writes |-> 0,
     reads |-> <<>>,             \* the ledger reads issued, in order
     \* history, for stating the claims: the calls in flight and the calls
     \* finished when this one arrived, and what had consumed its pair
     inFlightAtStart |-> {},
     doneAtStart |-> {},
     consumerAtStart |-> NoTx]

\* (mutant) a reader with a local cache: the answer an earlier call got for
\* the pair is given again, and the ledger is read only when there is none.
isNonceUsed_Cached(from, nonce) ==
    LET earlier == {d \in Calls :
                      /\ calls[d].pc = "done"
                      /\ calls[d].nonceUsed # "unread"
                      /\ calls[d].req.payload.payload.authorization.from.id = from.id
                      /\ calls[d].req.payload.payload.authorization.nonce = nonce}
    IN  IF earlier # {}
        THEN \E d \in earlier : calls[d].nonceUsed = "true"
        ELSE consumedBy[<<from.id, nonce>>] # NoTx

\* (mutant) a reader that answers from a stale copy taken before any
\* transfer.
isNonceUsed_Stale(from, nonce) == FALSE

\* qieService.isNonceUsed: authorizationState(authorizer, nonce), read from
\* the token contract.
isNonceUsed(from, nonce) == consumedBy[<<from.id, nonce>>] # NoTx

AuthOf(c) == calls[c].req.payload.payload.authorization
SigOf(c) == calls[c].req.payload.payload.signature
PairOf(c) == <<toLowerCase(AuthOf(c).from).id, AuthOf(c).nonce>>
InFlight(c) == calls[c].pc \notin {"idle", "done"}

Init ==
    /\ now = 0
    /\ balanceOf \in [PayerIds -> 0..MaxBalance]
    /\ consumedBy = [p \in Pairs |-> NoTx]
    /\ pool = {}
    /\ walletClient \in {"configured", "null"}
    /\ calls = [c \in Calls |-> IdleCall]
    /\ split = <<>>
    /\ framework = NoFrameworkCall
    /\ supported = NoSupportedCall

\* ---------------------------------------------------------------- ledger
\* The transaction walletClient.writeContract signs and sends: a call of
\* transferWithAuthorization(from, to, value, validAfter, validBefore,
\* nonce, v, r, s) on the token contract, with its gas limit.
Transaction(id, from, to, value, validAfter, validBefore, nonce, vrs, gas, estimated, via) ==
    [id |-> id, from |-> from, to |-> to, value |-> value,
     validAfter |-> validAfter, validBefore |-> validBefore, nonce |-> nonce,
     v |-> vrs.v, rs |-> vrs.rs, gas |-> gas, estimated |-> estimated,
     via |-> via]

\* qieService.ts lines 18-21: the account made from FACILITATOR_PRIVATE_KEY
\* at start-up, and the account a wallet client holds.
FacilitatorAccount == Addr("ff", TRUE)
AccountOf(wc) == IF wc = "configured" THEN FacilitatorAccount ELSE NoAddr

\* qieService.isFacilitatorConfigured (lines 102-104): there is a
\* facilitator account and a token contract address.  The wallet client is
\* null exactly when the account is (lines 24-30).
isFacilitatorConfigured(wc) ==
    AccountOf(wc) # NoAddr /\ QusdContractAddress # NoAddr

\* qieService.getFacilitatorAddress (lines 92-97): the account's address,
\* or a throw when there is no account.
getFacilitatorAddress(wc) ==
    IF AccountOf(wc) = NoAddr
    THEN [thrown |-> TRUE, address |-> NoAddr]
    ELSE [thrown |-> FALSE, address |-> AccountOf(wc)]

\* The SupportedResponse of handleSupported lines 17-29.
SupportedBody(signer) ==
    [schemes |-> <<ConfigScheme>>, networks |-> <<ConfigNetworkId>>,
     assets |-> <<[network |-> ConfigNetworkId, asset |-> QusdContractAddress,
                   name |-> "qUSD"]>>,
     signerAddress |-> signer]

\* (mutant) handleSupported without its guard: the throw of
\* getFacilitatorAddress reaches the server's catch and is answered 500.
handleSupported_Unguarded(wc) ==
    LET signer == getFacilitatorAddress(wc)
    IN  IF signer.thrown
        THEN SupportedCall(500, "Internal Server Error", {})
        ELSE SupportedCall(200, "none", {SupportedBody(signer.address)})

\* handleSupported (supported.ts lines 9-32), as routed by the server:
\* 503 with an error body when the facilitator is not configured, the
\* SupportedResponse with the signer address otherwise; a throw would be
\* answered 500 by the server's catch.
handleSupported(wc) ==
    IF ~isFacilitatorConfigured(wc)
    THEN SupportedCall(503, "Facilitator not properly configured", {})
    ELSE LET signer == getFacilitatorAddress(wc)
         IN  IF signer.thrown
             THEN SupportedCall(500, "Internal Server Error", {})
             ELSE SupportedCall(200, "none", {SupportedBody(signer.address)})

\* (mutant) the transaction is sent under the account of the transfer's
\* from.
writeContract_AsPayer(wc, request) == request @@ [account |-> request.from]

\* walletClient.writeContract with a request that names no account (lines
\* 79-84): the transaction is signed and sent under the client's account.
writeContract(wc, request) == request @@ [account |-> AccountOf(wc)]

\* Whether the token contract would execute the transfer in the current
\* ledger state: the signature recovers to from over exactly these
\* arguments, the window contains the block time, the pair is unused and
\* the balance covers the value.
WouldExecute(tx) ==
    /\ tx.rs.signer = tx.from.id
    /\ tx.rs.signed =
          [domain |-> Domain,
           message |-> [from |-> tx.from.id, to |-> tx.to.id,
                        value |-> tx.value, validAfter |-> tx.validAfter,
                        validBefore |-> tx.validBefore, nonce |-> tx.nonce]]
    /\ tx.rs.len = 64
    /\ ~tx.v.nan /\ tx.v.n - 27 = tx.rs.parity
    /\ tx.validAfter <= now /\ now < tx.validBefore
    /\ consumedBy[<<tx.from.id, tx.nonce>>] = NoTx
    /\ balanceOf[tx.from.id] >= tx.value

\* The ledger executes a submitted transaction: the transfer happens and
\* the pair is consumed, atomically, or the transaction reverts.
Mine(tx) ==
    /\ tx \in pool
    /\ pool' = pool \ {tx}
    /\ IF WouldExecute(tx) /\ tx.gas >= TRANSFER_GAS_NEEDED
       THEN /\ consumedBy' = [consumedBy EXCEPT ![<<tx.from.id, tx.nonce>>] = tx.id]
            /\ balanceOf' = [balanceOf EXCEPT ![tx.from.id] = @ - tx.value]
       ELSE UNCHANGED <<consumedBy, balanceOf>>
    /\ UNCHANGED <<now, walletClient, calls, split, framework, supported>>

\* Somebody else has the ledger execute a transfer that consumes the pair.
ThirdPartyTransfer(pair) ==
    /\ consumedBy[pair] = NoTx
    /\ consumedBy' = [consumedBy EXCEPT ![pair] = <<"third party">>]
    /\ UNCHANGED <<now, balanceOf, pool, walletClient, calls, split, framework, supported>>

\* A payer's balance changes through transfers the facilitator has no part in.
BalanceChange(payer, amount) ==
    /\ balanceOf[payer] # amount
    /\ balanceOf' = [balanceOf EXCEPT ![payer] = amount]
    /\ UNCHANGED <<now, consumedBy, pool, walletClient, calls, split, framework, supported>>

\* A second passes.
Tick ==
    /\ now < MaxTime
    /\ now' = now + 1
    /\ UNCHANGED <<balanceOf, consumedBy, pool, walletClient, calls, split, framework, supported>>

\* --------------------------------------------------------------- handlers
\* What each handler does with the result of verifyPayment.
\* (mutant) a valid verify goes on to the write, as settle does.
VerifyOnResult_Settles(cr, result) ==
    IF ~result.isValid
    THEN [cr EXCEPT !.pc = "done", !.verifyResult = result,
                    !.response = VerifyResponse(200, result)]
    ELSE [cr EXCEPT !.pc = "write", !.verifyResult = result]

\* handleVerify lines 168-172: the result becomes the response.
VerifyOnResult(cr, result) ==
    [cr EXCEPT !.pc = "done", !.verifyResult = result,
               !.response = VerifyResponse(200, result)]

\* (mutant) the write is attempted whatever the result.
SettleOnResult_Unchecked(cr, result) ==
    [cr EXCEPT !.pc = "write", !.verifyResult = result]

\* handleSettle lines 76-86: an invalid result is returned as a failure
\* with the validator's reason; a valid one goes on to the write.
SettleOnResult(cr, result) ==
    IF ~result.isValid
    THEN [cr EXCEPT !.pc = "done", !.verifyResult = result,
                    !.response = Rejection(400, result.invalidReason)]
    ELSE [cr EXCEPT !.pc = "write", !.verifyResult = result]

OnResult(cr, result) ==
    IF cr.req.endpoint = "verify" THEN VerifyOnResult(cr, result)
    ELSE SettleOnResult(cr, result)

\* The prefix the handler's catch block puts before the message of what it
\* caught: handleVerify line 176, handleSettle line 112.
CatchPrefix(endpoint) ==
    IF endpoint = "verify" THEN "Server error" ELSE "Settlement failed"

\* (mutant) the network and scheme comparisons are left to the end: a
\* body the schema accepts goes straight to verifyPayment.
Start_Unguarded(c, req) ==
    /\ calls[c].pc = "idle"
    /\ LET pair == <<toLowerCase(req.payload.payload.authorization.from).id,
                     req.payload.payload.authorization.nonce>>
           cr == [IdleCall EXCEPT
                    !.req = req,
                    !.inFlightAtStart = {d \in Calls : InFlight(d)},
                    !.doneAtStart = {d \in Calls : calls[d].pc = "done"},
                    !.consumerAtStart = consumedBy[pair]]
       IN  calls' = [calls EXCEPT ![c] =
             IF ~req.json
             THEN [cr EXCEPT !.pc = "done", !.fault = "JSON Parse error",
                     !.response = Rejection(500,
                         <<CatchPrefix(req.endpoint), "JSON Parse error">>)]
             ELSE IF ~SchemaAccepts(req)
             THEN [cr EXCEPT !.pc = "done",
                     !.response = Rejection(400, <<"Invalid request format">>)]
             ELSE [cr EXCEPT !.pc = "recover"]]
    /\ UNCHANGED <<now, balanceOf, consumedBy, pool, walletClient, split, framework, supported>>

\* (mutant) the network of the requirements is compared as well.
Start_RequirementsNetwork(c, req) ==
    /\ calls[c].pc = "idle"
    /\ LET pair == <<toLowerCase(req.payload.payload.authorization.from).id,
                     req.payload.payload.authorization.nonce>>
           cr == [IdleCall EXCEPT
                    !.req = req,
                    !.inFlightAtStart = {d \in Calls : InFlight(d)},
                    !.doneAtStart = {d \in Calls : calls[d].pc = "done"},
                    !.consumerAtStart = consumedBy[pair]]
       IN  calls' = [calls EXCEPT ![c] =
             IF ~req.json
             THEN [cr EXCEPT !.pc = "done", !.fault = "JSON Parse error",
                     !.response = Rejection(500,
                         <<CatchPrefix(req.endpoint), "JSON Parse error">>)]
             ELSE IF ~SchemaAccepts(req)
             THEN [cr EXCEPT !.pc = "done",
                     !.response = Rejection(400, <<"Invalid request format">>)]
             ELSE IF req.payload.network # ConfigNetworkId
             THEN [cr EXCEPT !.pc = "done",
                     !.response = Rejection(400, <<"Unsupported network">>)]
             ELSE IF req.requirements.network # ConfigNetworkId
             THEN [cr EXCEPT !.pc = "done",
                     !.response = Rejection(400, <<"Unsupported network">>)]
             ELSE IF req.payload.scheme # ConfigScheme
             THEN [cr EXCEPT !.pc = "done",
                     !.response = Rejection(400, <<"Unsupported scheme">>)]
             ELSE [cr EXCEPT !.pc = "recover"]]
    /\ UNCHANGED <<now, balanceOf, consumedBy, pool, walletClient, split, framework, supported>>

\* handleVerify lines 127-159 / handleSettle lines 35-67: the body is read
\* as JSON (a throw is caught by the handler's catch block) and parsed
\* against the schema, then payload.network and payload.scheme are compared
\* with the configuration.
Start(c, req) ==
    /\ calls[c].pc = "idle"
    /\ LET pair == <<toLowerCase(req.payload.payload.authorization.from).id,
                     req.payload.payload.authorization.nonce>>
           cr == [IdleCall EXCEPT
                    !.req = req,
                    !.inFlightAtStart = {d \in Calls : InFlight(d)},
                    !.doneAtStart = {d \in Calls : calls[d].pc = "done"},
                    !.consumerAtStart = consumedBy[pair]]
       IN  calls' = [calls EXCEPT ![c] =
             IF ~req.json
             THEN [cr EXCEPT !.pc = "done", !.fault = "JSON Parse error",
                     !.response = Rejection(500,
                         <<CatchPrefix(req.endpoint), "JSON Parse error">>)]
             ELSE IF ~SchemaAccepts(req)
             THEN [cr EXCEPT !.pc = "done",
                     !.response = Rejection(400, <<"Invalid request format">>)]
             ELSE IF req.payload.network # ConfigNetworkId
             THEN [cr EXCEPT !.pc = "done",
                     !.response = Rejection(400, <<"Unsupported network">>)]
             ELSE IF req.payload.scheme # ConfigScheme
             THEN [cr EXCEPT !.pc = "done",
                     !.response = Rejection(400, <<"Unsupported scheme">>)]
             ELSE [cr EXCEPT !.pc = "recover"]]
    /\ UNCHANGED <<now, balanceOf, consumedBy, pool, walletClient, split, framework, supported>>

\* verifyPayment lines 33-83: build the message, recover the signer, compare
\* it with from, read the clock, check the window.  A throw is caught at
\* line 142.
Recover(c) ==
    /\ calls[c].pc = "recover"
    /\ LET cr == calls[c]
           auth == AuthOf(c)
           sig == SigOf(c)
           recovered == recoverTypedDataAddress(Domain, TypedMessage(auth), sig)
           signer == CheckSigner(auth, recovered)
           time == CheckTime(auth, now)
       IN  calls' = [calls EXCEPT ![c] =
             IF MessageThrows(auth)
             THEN OnResult([cr EXCEPT !.fault = "SyntaxError"],
                           Invalid(VerificationError("SyntaxError")))
             ELSE IF RecoverThrows(sig)
             THEN OnResult([cr EXCEPT !.fault = "Invalid signature"],
                           Invalid(VerificationError("Invalid signature")))
             ELSE IF signer.returned
             THEN OnResult([cr EXCEPT !.recovered = recovered], signer.value)
             ELSE IF time.returned
             THEN OnResult([cr EXCEPT !.recovered = recovered, !.time = now],
                           time.value)
             ELSE [cr EXCEPT !.pc = "nonce", !.recovered = recovered,
                             !.time = now]]
    /\ UNCHANGED <<now, balanceOf, consumedBy, pool, walletClient, split, framework, supported>>

\* (mutant) a failed read is not caught inside verifyPayment: it reaches
\* the handler's catch block.
ReadNonce_Propagates(c) ==
    /\ calls[c].pc = "nonce"
    /\ LET cr == [calls[c] EXCEPT !.reads = Append(@, "authorizationState")]
           auth == AuthOf(c)
       IN  \/ calls' = [calls EXCEPT ![c] =
                 [cr EXCEPT !.pc = "done", !.fault = "HTTP request failed",
                    !.response = Rejection(500,
                        <<CatchPrefix(cr.req.endpoint), "HTTP request failed">>)]]
           \/ LET nonceUsed == isNonceUsed(auth.from, auth.nonce)
                  check == CheckNonce(nonceUsed)
                  cr1 == [cr EXCEPT !.nonceUsed =
                                      IF nonceUsed THEN "true" ELSE "false"]
              IN  calls' = [calls EXCEPT ![c] =
                    IF check.returned THEN OnResult(cr1, check.value)
                    ELSE [cr1 EXCEPT !.pc = "balance"]]
    /\ UNCHANGED <<now, balanceOf, consumedBy, pool, walletClient, split, framework, supported>>

\* verifyPayment lines 85-96: isNonceUsed reads authorizationState from the
\* ledger; the read may fail.
ReadNonce(c) ==
    /\ calls[c].pc = "nonce"
    /\ LET cr == [calls[c] EXCEPT !.reads = Append(@, "authorizationState")]
           auth == AuthOf(c)
       IN  \/ \* the read fails
              calls' = [calls EXCEPT ![c] =
                 OnResult([cr EXCEPT !.fault = "HTTP request failed"],
                          Invalid(VerificationError("HTTP request failed")))]
           \/ \* the read answers
              LET nonceUsed == isNonceUsed(auth.from, auth.nonce)
                  check == CheckNonce(nonceUsed)
                  cr1 == [cr EXCEPT !.nonceUsed =
                                      IF nonceUsed THEN "true" ELSE "false"]
              IN  calls' = [calls EXCEPT ![c] =
                    IF check.returned THEN OnResult(cr1, check.value)
                    ELSE [cr1 EXCEPT !.pc = "balance"]]
    /\ UNCHANGED <<now, balanceOf, consumedBy, pool, walletClient, split, framework, supported>>

\* (mutant) the balance is read twice.
ReadBalance_Twice(c) ==
    /\ calls[c].pc = "balance"
    /\ LET cr == [calls[c] EXCEPT !.reads = @ \o <<"balanceOf", "balanceOf">>]
           auth == AuthOf(c)
       IN  \/ calls' = [calls EXCEPT ![c] =
                 OnResult([cr EXCEPT !.fault = "HTTP request failed"],
                          Invalid(VerificationError("HTTP request failed")))]
           \/ LET balance == balanceOf[auth.from.id]
              IN  calls' = [calls EXCEPT ![c] =
                    OnResult([cr EXCEPT !.balance = balance,
                                !.fault = IF BigInt(cr.req.requirements.amount).thrown
                                          THEN "SyntaxError" ELSE "none"],
                             ChecksAfterBalance(auth, cr.req.requirements,
                                                balance, cr.recovered))]
    /\ UNCHANGED <<now, balanceOf, consumedBy, pool, walletClient, split, framework, supported>>

\* verifyPayment lines 98-141: getBalance reads balanceOf from the ledger
\* (the read may fail), then the remaining checks run.
ReadBalance(c) ==
    /\ calls[c].pc = "balance"
    /\ LET cr == [calls[c] EXCEPT !.reads = Append(@, "balanceOf")]
           auth == AuthOf(c)
       IN  \/ calls' = [calls EXCEPT ![c] =
                 OnResult([cr EXCEPT !.fault = "HTTP request failed"],
                          Invalid(VerificationError("HTTP request failed")))]
           \/ LET balance == balanceOf[auth.from.id]
              IN  calls' = [calls EXCEPT ![c] =
                    OnResult([cr EXCEPT !.balance = balance,
                                !.fault = IF BigInt(cr.req.requirements.amount).thrown
                                          THEN "SyntaxError" ELSE "none"],
                             ChecksAfterBalance(auth, cr.req.requirements,
                                                balance, cr.recovered))]
    /\ UNCHANGED <<now, balanceOf, consumedBy, pool, walletClient, split, framework, supported>>

\* ------------------------------------------------------------ the write
\* The gas member of a writeContract request that carries none.
NoGas == [given |-> FALSE, gas |-> 0]
Gas(g) == [given |-> TRUE, gas |-> g]

TxHash(c) == <<"tx", c>>

\* (mutant) the amount moved is the amount the requirements ask for.
TransferOf_RequiredAmount(c, gas, estimated) ==
    LET auth == AuthOf(c)
    IN  Transaction(TxHash(c), auth.from, auth.to,
                    BigInt(calls[c].req.requirements.amount).n,
                    BigInt(auth.validAfter).n, BigInt(auth.validBefore).n,
                    auth.nonce, parseSignature(SigOf(c)), gas, estimated,
                    "qieService")

\* handleSettle lines 85-99: the arguments of the transfer, from the
\* request's authorization and the split signature.
TransferOf(c, gas, estimated) ==
    LET auth == AuthOf(c)
    IN  Transaction(TxHash(c), auth.from, auth.to, BigInt(auth.value).n,
                    BigInt(auth.validAfter).n, BigInt(auth.validBefore).n,
                    auth.nonce, parseSignature(SigOf(c)), gas, estimated,
                    "qieService")

\* What the node's eth_estimateGas can answer for a transfer: the QIE
\* node's fixed 24,000; an accurate node's estimate, or its revert when the
\* call would not execute; a transport failure.
eth_estimateGas(tx) ==
    {[thrown |-> FALSE, gas |-> QIE_GAS_ESTIMATE, cause |-> "none"],
     [thrown |-> TRUE, gas |-> 0, cause |-> "HTTP request failed"]}
    \cup (IF WouldExecute(tx)
          THEN {[thrown |-> FALSE, gas |-> TRANSFER_GAS_NEEDED, cause |-> "none"]}
          ELSE {[thrown |-> TRUE, gas |-> 0, cause |-> "execution reverted"]})

\* executeTransferWithAuthorization lines 75-84: the request handed to
\* walletClient.writeContract has address, abi, functionName and args, and
\* no gas member.
ExecuteTransferGas == NoGas

\* (mutant) the throw of executeTransferWithAuthorization is not caught:
\* the handler ends without a response of its own.
Write_Uncaught(c) ==
    /\ calls[c].pc = "write"
    /\ LET cr == calls[c]
       IN  IF walletClient = "null"
           THEN calls' = [calls EXCEPT ![c] = [cr EXCEPT !.pc = "done",
                   !.fault = "Wallet client not configured"]]
           ELSE \E est \in eth_estimateGas(TransferOf(c, 0, TRUE)) :
                  calls' = [calls EXCEPT ![c] =
                    IF est.thrown
                    THEN [cr EXCEPT !.pc = "done", !.writes = @ + 1,
                            !.fault = est.cause]
                    ELSE [cr EXCEPT !.pc = "send", !.writes = @ + 1,
                            !.gas = est.gas, !.estimated = TRUE]]
    /\ UNCHANGED <<now, balanceOf, consumedBy, pool, walletClient, split, framework, supported>>

\* handleSettle lines 88-99 and executeTransferWithAuthorization: without a
\* wallet client the call throws; writeContract, given no gas, asks the
\* node for an estimate first.  A throw is caught at handleSettle line 109.
Write(c) ==
    /\ calls[c].pc = "write"
    /\ LET cr == calls[c]
       IN  IF walletClient = "null"
           THEN calls' = [calls EXCEPT ![c] = [cr EXCEPT !.pc = "done",
                   !.fault = "Wallet client not configured",
                   !.response = Rejection(500,
                       <<"Settlement failed", "Wallet client not configured">>)]]
           ELSE IF ExecuteTransferGas.given
           THEN calls' = [calls EXCEPT ![c] = [cr EXCEPT !.pc = "send",
                   !.writes = @ + 1, !.gas = ExecuteTransferGas.gas]]
           ELSE \E est \in eth_estimateGas(TransferOf(c, 0, TRUE)) :
                  calls' = [calls EXCEPT ![c] =
                    IF est.thrown
                    THEN [cr EXCEPT !.pc = "done", !.writes = @ + 1,
                            !.fault = est.cause,
                            !.response = Rejection(500,
                                <<"Settlement failed", est.cause>>)]
                    ELSE [cr EXCEPT !.pc = "send", !.writes = @ + 1,
                            !.gas = est.gas, !.estimated = TRUE]]
    /\ UNCHANGED <<now, balanceOf, consumedBy, pool, walletClient, split, framework, supported>>

\* (mutant) a failed send is tried once more.
Send_Retry(c) ==
    /\ calls[c].pc = "send"
    /\ LET cr == calls[c]
       IN  \/ /\ calls' = [calls EXCEPT ![c] =
                    IF cr.writes < 2
                    THEN [cr EXCEPT !.writes = @ + 1]
                    ELSE [cr EXCEPT !.pc = "done",
                            !.fault = "HTTP request failed",
                            !.response = Rejection(500,
                                <<"Settlement failed", "HTTP request failed">>)]]
              /\ pool' = pool
           \/ /\ pool' = pool \cup {writeContract(walletClient,
                                        TransferOf(c, cr.gas, cr.estimated))}
              /\ calls' = [calls EXCEPT ![c] = [cr EXCEPT !.pc = "done",
                    !.response = SettleSuccess(TxHash(c), cr.verifyResult.payer)]]
    /\ UNCHANGED <<now, balanceOf, consumedBy, walletClient, split, framework, supported>>

\* (mutant) after a failed send the call waits for the next block before
\* it answers.
Send_Waits(c) ==
    /\ calls[c].pc = "send"
    /\ LET cr == calls[c]
       IN  \/ /\ calls' = [calls EXCEPT ![c] = [cr EXCEPT !.pc = "wait",
                    !.fault = "HTTP request failed"]]
              /\ pool' = pool
           \/ /\ pool' = pool \cup {writeContract(walletClient,
                                        TransferOf(c, cr.gas, cr.estimated))}
              /\ calls' = [calls EXCEPT ![c] = [cr EXCEPT !.pc = "done",
                    !.response = SettleSuccess(TxHash(c), cr.verifyResult.payer)]]
    /\ UNCHANGED <<now, balanceOf, consumedBy, walletClient, split, framework, supported>>

\* writeContract signs the transaction and sends it to the node, which
\* answers with the transaction hash (or the send fails); handleSettle
\* lines 101-108 return the hash as success.
Send(c) ==
    /\ calls[c].pc = "send"
    /\ LET cr == calls[c]
       IN  \/ /\ calls' = [calls EXCEPT ![c] = [cr EXCEPT !.pc = "done",
                    !.fault = "HTTP request failed",
                    !.response = Rejection(500,
                        <<"Settlement failed", "HTTP request failed">>)]]
              /\ pool' = pool
           \/ /\ pool' = pool \cup {writeContract(walletClient,
                                        TransferOf(c, cr.gas, cr.estimated))}
              /\ calls' = [calls EXCEPT ![c] = [cr EXCEPT !.pc = "done",
                    !.response = SettleSuccess(TxHash(c), cr.verifyResult.payer)]]
    /\ UNCHANGED <<now, balanceOf, consumedBy, walletClient, split, framework, supported>>

\* ------------------------------------------- the framework variant's clients
\* The request a caller hands to writeContract or sendTransaction, with the
\* gas member the caller gave it.
WithGas(tx, callerGas) ==
    [tx EXCEPT !.gas = callerGas.gas, !.estimated = FALSE]

\* (mutant) the caller's gas is kept when the caller gave one.
IndexWriteContractGas_CallerFirst(callerGas) ==
    IF callerGas.given THEN callerGas ELSE Gas(FIXED_GAS_LIMIT)

\* index.ts lines 38-44: gasInjectedClient.writeContract passes the request
\* on with gas set to FIXED_GAS_LIMIT, whatever gas the caller gave.
IndexWriteContractGas(callerGas) == Gas(FIXED_GAS_LIMIT)

\* index.ts lines 42-43: sendTransaction likewise.
IndexSendTransactionGas(callerGas) == Gas(FIXED_GAS_LIMIT)

\* The framework's settle calls signer.writeContract with the transfer of a
\* payment payload; with gas given, no estimate is asked for.
GasInjectedWriteContract(tx, callerGas) ==
    /\ walletClient = "configured"
    /\ LET g == IndexWriteContractGas(callerGas)
           sent == writeContract(walletClient,
                      [tx EXCEPT !.id = <<"tx", "index">>, !.via = "index",
                                 !.gas = g.gas, !.estimated = ~g.given])
       IN  /\ pool' = pool \cup {sent}
           /\ framework' = FrameworkCall("index", "writeContract",
                              {WithGas(tx, callerGas)}, callerGas, <<>>,
                              {sent}, "none")
    /\ UNCHANGED <<now, balanceOf, consumedBy, walletClient, calls, split, supported>>

\* The same wrapper's sendTransaction.
GasInjectedSendTransaction(tx, callerGas) ==
    /\ walletClient = "configured"
    /\ LET g == IndexSendTransactionGas(callerGas)
           sent == writeContract(walletClient,
                      [tx EXCEPT !.id = <<"tx", "index send">>, !.via = "index",
                                 !.gas = g.gas, !.estimated = ~g.given])
       IN  /\ pool' = pool \cup {sent}
           /\ framework' = FrameworkCall("index", "sendTransaction",
                              {WithGas(tx, callerGas)}, callerGas, <<>>,
                              {sent}, "none")
    /\ UNCHANGED <<now, balanceOf, consumedBy, walletClient, calls, split, supported>>

\* (mutant) a failed estimate falls back to the gas the caller gave and the
\* transaction is sent.
ExtendedWriteContract_Fallback(tx, callerGas) ==
    /\ walletClient = "configured"
    /\ \E est \in eth_estimateGas(tx) :
          LET gas == IF est.thrown THEN callerGas.gas ELSE est.gas
              sent == writeContract(walletClient,
                         [tx EXCEPT !.id = <<"tx", "client">>,
                                    !.via = "client", !.gas = gas,
                                    !.estimated = TRUE])
          IN  /\ pool' = pool \cup {sent}
              /\ framework' = FrameworkCall("client", "writeContract",
                                 {WithGas(tx, callerGas)}, callerGas,
                                 <<est>>, {sent}, "none")
    /\ UNCHANGED <<now, balanceOf, consumedBy, walletClient, calls, split, supported>>

\* client.ts lines 17-46: extendedWriteContract asks eth_estimateGas, sets
\* args.gas to the answer, whatever gas the caller gave, and then writes;
\* a failed estimate is rethrown and nothing is sent.
ExtendedWriteContract(tx, callerGas) ==
    /\ walletClient = "configured"
    /\ \E est \in eth_estimateGas(tx) :
          IF est.thrown
          THEN /\ pool' = pool
               /\ framework' = FrameworkCall("client", "writeContract",
                                  {WithGas(tx, callerGas)}, callerGas,
                                  <<est>>, {}, est.cause)
          ELSE LET sent == writeContract(walletClient,
                              [tx EXCEPT !.id = <<"tx", "client">>,
                                         !.via = "client",
                                         !.gas = est.gas,
                                         !.estimated = TRUE])
               IN  /\ pool' = pool \cup {sent}
                   /\ framework' = FrameworkCall("client", "writeContract",
                                      {WithGas(tx, callerGas)}, callerGas,
                                      <<est>>, {sent}, "none")
    /\ UNCHANGED <<now, balanceOf, consumedBy, walletClient, calls, split, supported>>

\* ------------------------------------------------------------ the inputs
PayerA == Addr("aa", FALSE)
MerchantB == Addr("bb", FALSE)

SignedBy(signer, auth, vbyte) ==
    Signature(signer, [domain |-> Domain, message |-> TypedMessage(auth)],
              0, vbyte)

\* Scenario A of the specification, scaled to the model's clock and
\* balances: A pays B 2, valid in [0, 2), 1 required.
ScenarioAuth ==
    Authorization(PayerA, MerchantB, <<"2">>, <<"0">>, <<"2">>, "n1")
ScenarioRequirements ==
    PaymentRequirements(toLowerCase(QusdContractAddress), <<"1">>,
                        Addr("bb", TRUE), ConfigNetworkId, 60)
ScenarioA(endpoint) ==
    Request(endpoint, "exact", ConfigNetworkId,
            SignedBy("aa", ScenarioAuth, 27), ScenarioAuth,
            ScenarioRequirements)

\* Scenario A with a signature blob that is not r, s and one byte of v.
SignedBlob(signer, auth, parity, rsLen, tail) ==
    SignatureBlob(signer, [domain |-> Domain, message |-> TypedMessage(auth)],
                  parity, rsLen, tail)
BlobRequests ==
    {[ScenarioA(endpoint) EXCEPT !.payload.payload.signature = sig] :
        endpoint \in {"verify", "settle"},
        sig \in {SignedBlob("aa", ScenarioAuth, 0, 32, <<>>),
                 SignedBlob("aa", ScenarioAuth, 0, 64, <<>>),
                 SignedBlob("aa", ScenarioAuth, 0, 64, <<0, 27>>),
                 SignedBlob("aa", ScenarioAuth, 1, 64, <<0, 28>>),
                 SignedBlob("aa", ScenarioAuth, 0, 64, <<27, 0>>)}}

\* The requests two concurrent clients send: scenario A, and scenario A
\* with a signature made by another key.
ConcurrentRequests ==
    {ScenarioA(e) : e \in {"verify", "settle"}}
    \cup {[ScenarioA(e) EXCEPT !.payload.payload.signature =
              SignedBy("ee", ScenarioAuth, 27)] : e \in {"verify", "settle"}}

\* The requests of the single-call specification: every combination of
\* passing and failing values of the fields the pipeline looks at.
PipelineAuths ==
    {Authorization(PayerA, MerchantB, value, validAfter, validBefore, "n1") :
        value \in {<<"1">>, <<"2">>},
        validAfter \in {<<"0">>, <<"1">>, <<"2">>},
        validBefore \in {<<"1">>, <<"2">>}}
PipelineRequirements ==
    {PaymentRequirements(asset, amount, payTo, ConfigNetworkId, 60) :
        asset \in {toLowerCase(QusdContractAddress), Addr("dd", FALSE)},
        amount \in {<<"1">>, <<"2">>},
        payTo \in {Addr("bb", TRUE), Addr("aa", FALSE)}}
PipelineSignatures(auth) ==
    {SignedBy("aa", auth, 27), SignedBy("ee", auth, 27), SignedBy("aa", auth, 5)}
PipelineRequests ==
    UNION {{Request(endpoint, "exact", ConfigNetworkId, sig, auth, requirements) :
               endpoint \in {"verify", "settle"},
               sig \in PipelineSignatures(auth),
               requirements \in PipelineRequirements} : auth \in PipelineAuths}
    \cup {[ScenarioA(endpoint) EXCEPT !.payload.network = "eip155:1"] :
              endpoint \in {"verify", "settle"}}
    \cup {[ScenarioA(endpoint) EXCEPT !.payload.scheme = "upto"] :
              endpoint \in {"verify", "settle"}}
    \cup {[ScenarioA(endpoint) EXCEPT !.json = FALSE] :
              endpoint \in {"verify", "settle"}}
    \cup BlobRequests

\* The request of the write-path specification: scenario A, settled.
GasRequests == {ScenarioA("settle")}

\* The transfers the framework hands to its signer's writeContract.
FrameworkTransfers ==
    {Transaction(NoTx, ScenarioAuth.from, ScenarioAuth.to, 2, 0, 2, "n1",
                 parseSignature(SignedBy("aa", ScenarioAuth, 27)), 0, FALSE,
                 "framework")}

\* The gas member the caller of a framework client may have put in its
\* request: none, or a number of its own.
CallerGases == {NoGas, Gas(QIE_GAS_ESTIMATE)}

\* ------------------------------------------------------- specifications
Ledger ==
    \/ Tick
    \/ \E tx \in pool : Mine(tx)
    \/ \E pair \in Pairs : ThirdPartyTransfer(pair)
    \/ \E payer \in PayerIds, amount \in 0..MaxBalance :
          BalanceChange(payer, amount)

Serve(c) ==
    \/ Recover(c)
    \/ ReadNonce(c)
    \/ ReadBalance(c)
    \/ Write(c)
    \/ Send(c)

\* Two clients, each sending one request, served concurrently.
Next ==
    \/ \E c \in Calls, req \in ConcurrentRequests : Start(c, req)
    \/ \E c \in Calls : Serve(c)
    \/ Ledger

Spec == Init /\ [][Next]_vars

\* One request over the full input space.
NextPipeline ==
    \/ \E req \in PipelineRequests : Start("c1", req)
    \/ Serve("c1")
    \/ Ledger

SpecPipeline == Init /\ [][NextPipeline]_vars

\* One request, scenario A or scenario A signed by another key, served to
\* its end while time passes and the ledger executes transfers (the
\* payer's balance is any at the start).  Weak fairness of Serve: every
\* step of the call is eventually taken, which for a ledger call is the
\* proviso that it eventually returns or fails.
\* GET /supported is served.
GetSupported ==
    /\ supported' = handleSupported(walletClient)
    /\ UNCHANGED <<now, balanceOf, consumedBy, pool, walletClient, calls, split,
                   framework>>

\* One client posting verify and settle requests, and clients asking GET
\* /supported, with or without a facilitator private key.
NextSupported ==
    \/ \E req \in ConcurrentRequests : Start("c1", req)
    \/ Serve("c1")
    \/ GetSupported
    \/ Ledger

SpecSupported == Init /\ [][NextSupported]_vars

NextLive ==
    \/ \E req \in ConcurrentRequests : Start("c1", req)
    \/ Serve("c1")
    \/ Tick
    \/ \E tx \in pool : Mine(tx)
    \/ \E pair \in Pairs : ThirdPartyTransfer(pair)

SpecLive == Init /\ [][NextLive]_vars /\ WF_vars(Serve("c1"))

\* The three write paths of the source side by side: a settle request
\* through qieService, and the framework variant's two clients.
NextGas ==
    \/ \E req \in GasRequests : Start("c1", req)
    \/ Serve("c1")
    \/ Ledger
    \/ \E tx \in FrameworkTransfers, callerGas \in CallerGases :
          GasInjectedWriteContract(tx, callerGas)
    \/ \E tx \in FrameworkTransfers, callerGas \in {NoGas} :
          ExtendedWriteContract(tx, callerGas)

SpecGas == Init /\ [][NextGas]_vars

\* The framework variant's two clients on their own: the framework's signer
\* calls writeContract and sendTransaction, with and without a gas of its
\* own, while the ledger moves.
NextFramework ==
    \/ \E tx \in FrameworkTransfers, callerGas \in CallerGases :
          GasInjectedWriteContract(tx, callerGas)
    \/ \E tx \in FrameworkTransfers, callerGas \in CallerGases :
          GasInjectedSendTransaction(tx, callerGas)
    \/ \E tx \in FrameworkTransfers, callerGas \in CallerGases :
          ExtendedWriteContract(tx, callerGas)
    \/ Ledger

SpecFramework == Init /\ [][NextFramework]_vars

\* One request whose validAfter and validBefore are strings of every kind
\* the schema's z.string() lets through: decimal, empty, padded with a
\* space, with a 0x, 0b or 0o prefix, with a fraction.
TimeStrings ==
    {<<"0">>, <<"1">>, <<"2">>, <<>>, <<" ", "1">>, <<"0", "x", "2">>,
     <<"0", "b", "1", "0">>, <<"0", "o", "2">>, <<"1", ".", "5">>}
TimeAuths ==
    {Authorization(PayerA, MerchantB, <<"2">>, validAfter, validBefore, "n1") :
        validAfter \in TimeStrings, validBefore \in TimeStrings}
TimeRequests ==
    {Request(endpoint, "exact", ConfigNetworkId, SignedBy("aa", auth, 27),
             auth, ScenarioRequirements) :
        endpoint \in {"verify", "settle"}, auth \in TimeAuths}

NextTimes ==
    \/ \E req \in TimeRequests : Start("c1", req)
    \/ Serve("c1")
    \/ Ledger

SpecTimes == Init /\ [][NextTimes]_vars

\* Two clients, the first sending scenario A and the second its twin,
\* which differs from it in requirements.network and
\* requirements.maxTimeoutSeconds only.
TwinRequirements ==
    PaymentRequirements(toLowerCase(QusdContractAddress), <<"1">>,
                        Addr("bb", TRUE), "eip155:1", 0)
ScenarioRequests ==
    {ScenarioA(e) : e \in {"verify", "settle"}}
ScenarioTwins ==
    {Request(e, "exact", ConfigNetworkId, SignedBy("aa", ScenarioAuth, 27),
             ScenarioAuth, TwinRequirements) : e \in {"verify", "settle"}}
TwinRequests(c) ==
    IF c = "c1" THEN ScenarioRequests ELSE ScenarioTwins

NextTwins ==
    \/ \E c \in Calls : \E req \in TwinRequests(c) : Start(c, req)
    \/ \E c \in Calls : Serve(c)
    \/ Ledger

SpecTwins == Init /\ [][NextTwins]_vars

\* parseSignature as a function of its own, over blobs of every shape: 32
\* bytes, 64 bytes, 65 bytes with every kind of trailing byte, 66 bytes.
SplitTails ==
    {<<>>, <<0>>, <<1>>, <<2>>, <<5>>, <<26>>, <<27>>, <<28>>, <<29>>,
     <<255>>, <<0, 27>>, <<0, 28>>, <<1, 28>>, <<27, 0>>}
SplitSignatures ==
    {SignedBlob(signer, ScenarioAuth, parity, 64, tail) :
        signer \in {"aa", "ee"}, parity \in {0, 1}, tail \in SplitTails}
    \cup {SignedBlob(signer, ScenarioAuth, parity, 32, <<>>) :
             signer \in {"aa", "ee"}, parity \in {0, 1}}

InitSplit ==
    /\ now = 0
    /\ balanceOf = [p \in PayerIds |-> 0]
    /\ consumedBy = [p \in Pairs |-> NoTx]
    /\ pool = {}
    /\ walletClient = "configured"
    /\ calls = [c \in Calls |-> IdleCall]
    /\ split \in {<<[sig |-> sig, out |-> <<>>]>> : sig \in SplitSignatures}
    /\ framework = NoFrameworkCall
    /\ supported = NoSupportedCall

\* parseSignature(signature) is called and returns.
Split ==
    /\ split[1].out = <<>>
    /\ split' = <<[split[1] EXCEPT !.out = <<parseSignature(split[1].sig)>>]>>
    /\ UNCHANGED <<now, balanceOf, consumedBy, pool, walletClient, calls,
                   framework, supported>>

NextSplit == Split

SpecSplit == InitSplit /\ [][NextSplit]_vars

\* ------------------------------------------------------------- the claims
\* What a call observed, read the way the specification's data model reads
\* it: value, validAfter, validBefore and amount are unsigned integers
\* written as decimal strings.
Decimal(str) == DigitsToNat(str, 10)
RequirementsOf(c) == calls[c].req.requirements

\* The call ran verifyPayment to a result that is not a caught fault.
Decided(c) ==
    /\ calls[c].verifyResult # NoResult
    /\ (calls[c].verifyResult.isValid
        \/ Head(calls[c].verifyResult.invalidReason) # "Verification error")

\* The rejection reasons in the order of the pipeline.
CheckOrder ==
    <<SignerMismatch, NotYetValid, Expired, NonceUsed, InsufficientBalance,
      AmountTooLow, RecipientMismatch, AssetMismatch>>

\* Check k of the pipeline fails on what call c observed (an observation
\* the call never made fails nothing).
Fails(c, k) ==
    LET cr == calls[c]
        auth == AuthOf(c)
        req == RequirementsOf(c)
    IN  CASE k = 1 -> cr.recovered # NoAddr /\ cr.recovered.id # auth.from.id
          [] k = 2 -> cr.time >= 0 /\ cr.time < Decimal(auth.validAfter)
          [] k = 3 -> cr.time >= 0 /\ cr.time >= Decimal(auth.validBefore)
          [] k = 4 -> cr.nonceUsed = "true"
          [] k = 5 -> cr.balance >= 0 /\ cr.balance < Decimal(req.amount)
          [] k = 6 -> Decimal(auth.value) < Decimal(req.amount)
          [] k = 7 -> auth.to.id # req.payTo.id
          [] k = 8 -> req.asset.id # QusdContractAddress.id

\* C1: a rejection carries the reason of the earliest failing check in the
\* order signer, not yet valid, expired, nonce, balance, authorization
\* amount, recipient, asset: the check it names failed and every check
\* before it passed, whatever later checks would have said.
C1_EarliestFailingCheck ==
    \A c \in Calls :
        (Decided(c) /\ ~calls[c].verifyResult.isValid) =>
            \E k \in 1..8 :
                /\ calls[c].verifyResult.invalidReason = CheckOrder[k]
                /\ Fails(c, k)
                /\ \A j \in 1..(k - 1) : ~Fails(c, j)

\* C1 witness: a request that fails three checks at once (the signer, the
\* authorization amount and the asset) is rejected for the signer.
C1_Witness ==
    /\ calls["c1"].pc = "done"
    /\ calls["c1"].verifyResult.invalidReason = SignerMismatch
    /\ Fails("c1", 6) /\ Fails("c1", 8)

C3_AllConditionsImplyValid ==
    \A c \in Calls :
        (Decided(c) /\ \A k \in 1..8 : ~Fails(c, k)) =>
            /\ calls[c].verifyResult = Valid(calls[c].recovered)
            /\ calls[c].recovered.id = AuthOf(c).from.id
            /\ calls[c].req.endpoint = "verify" =>
                  calls[c].response =
                      VerifyResponse(200, Valid(calls[c].recovered))

\* C3 witness: scenario A is answered { isValid: true, payer: A }.
C3_Witness ==
    /\ calls["c1"].req = ScenarioA("verify")
    /\ calls["c1"].response.status = 200
    /\ calls["c1"].response.ok
    /\ calls["c1"].response.payer.id = "aa"

\* The time check ran in call c (the signer matched and the clock was read).
TimeChecked(c) == calls[c].time >= 0
\* ... and let the call through.
TimePassed(c) ==
    /\ calls[c].pc # "recover"
    /\ calls[c].verifyResult.invalidReason \notin {NotYetValid, Expired}

\* C4 as stated: t < validAfter is rejected as not yet valid,
\* validAfter <= t < validBefore passes, t >= validBefore is rejected as
\* expired.
C4_TimeWindowAsStated ==
    \A c \in Calls :
        TimeChecked(c) =>
            LET t == calls[c].time
                validAfter == Decimal(AuthOf(c).validAfter)
                validBefore == Decimal(AuthOf(c).validBefore)
                reason == calls[c].verifyResult.invalidReason
            IN  /\ t < validAfter => reason = NotYetValid
                /\ (validAfter <= t /\ t < validBefore) => TimePassed(c)
                /\ t >= validBefore => reason = Expired

\* C4 amended: as stated, except that a time t with
\* validBefore <= t < validAfter (an inverted window) is rejected as not
\* yet valid, the earlier of the two checks.
C4_TimeWindow ==
    \A c \in Calls :
        TimeChecked(c) =>
            LET t == calls[c].time
                validAfter == Decimal(AuthOf(c).validAfter)
                validBefore == Decimal(AuthOf(c).validBefore)
                reason == calls[c].verifyResult.invalidReason
            IN  /\ t < validAfter => reason = NotYetValid
                /\ (validAfter <= t /\ t < validBefore) => TimePassed(c)
                /\ (t >= validBefore /\ t >= validAfter) => reason = Expired

\* C4 witness: the boundary t = validBefore is rejected as expired.
C4_Witness ==
    /\ TimeChecked("c1")
    /\ calls["c1"].time = Decimal(AuthOf("c1").validBefore)
    /\ calls["c1"].time >= Decimal(AuthOf("c1").validAfter)
    /\ calls["c1"].verifyResult.invalidReason = Expired

\* The other boundary: t = validAfter > 0 passes the time check.
C4_LowerBoundaryPasses ==
    /\ TimeChecked("c1")
    /\ calls["c1"].time = Decimal(AuthOf("c1").validAfter)
    /\ calls["c1"].time > 0
    /\ TimePassed("c1")

\* The transaction call c submitted is in the pool or has consumed a pair.
Submitted(c) ==
    \/ \E tx \in pool : tx.id = TxHash(c)
    \/ \E p \in Pairs : consumedBy[p] = TxHash(c)

Responded(c) == calls[c].pc = "done"
SamePair(c, d) == Responded(c) /\ Responded(d) /\ PairOf(c) = PairOf(d)

\* C5 as stated: once a settlement has consumed (from, nonce), every later
\* verify or settle with that pair answers nonce-already-used.
C5_AlwaysNonceUsedAsStated ==
    \A c \in Calls :
        (Responded(c)
         /\ calls[c].consumerAtStart \in {TxHash(d) : d \in Calls}) =>
            calls[c].response.reason = NonceUsed

\* C5 amended: once (from, nonce) has been consumed, every later verify or
\* settle with that pair is rejected and submits nothing; its reason is
\* nonce-already-used whenever the call gets an answer to its nonce read,
\* and otherwise the reason of the earlier step that stopped it.
C5_RejectedAfterConsumption ==
    \A c \in Calls :
        (Responded(c) /\ calls[c].consumerAtStart # NoTx) =>
            /\ ~calls[c].response.ok
            /\ ~Submitted(c)
            /\ calls[c].nonceUsed # "false"
            /\ calls[c].nonceUsed = "true" =>
                  calls[c].response.reason = NonceUsed

\* C5 witness: c1's settlement consumed the pair; c2, arriving later with
\* the same pair, is told the nonce has been used.
C5_Witness ==
    /\ calls["c1"].response.ok
    /\ consumedBy[PairOf("c1")] = TxHash("c1")
    /\ calls["c2"].consumerAtStart = TxHash("c1")
    /\ Responded("c2")
    /\ calls["c2"].response.reason = NonceUsed

\* Call c met no fault of transport or configuration, and what it observed
\* of the clock and the balance is as in scenario A.
ScenarioHolds(c) ==
    /\ Head(calls[c].response.reason \o <<"">>)
          \notin {"Verification error", "Settlement failed"}
    /\ ~Fails(c, 2) /\ ~Fails(c, 3) /\ ~Fails(c, 5)

\* C6: settle called twice in sequence with scenario A's payload: the
\* first call answers success with a transaction, the second answers
\* failure with the nonce-already-used reason.
C6_SecondSettleRejected ==
    \A c, d \in Calls :
        (/\ c # d
         /\ Responded(c) /\ Responded(d)
         /\ calls[c].req = ScenarioA("settle")
         /\ calls[d].req = ScenarioA("settle")
         /\ c \in calls[d].doneAtStart
         /\ calls[c].response.ok /\ calls[c].response.transaction = TxHash(c)
         /\ ScenarioHolds(d)) =>
            calls[d].response = Rejection(400, NonceUsed)

\* The two calls overlapped: one arrived while the other was in flight.
Concurrent(c, d) ==
    c \in calls[d].inFlightAtStart \/ d \in calls[c].inFlightAtStart

\* C7: of two concurrent settle calls for the same (from, nonce), at most
\* one answers success.
C7_AtMostOneSucceeds ==
    \A c, d \in Calls :
        (/\ c # d
         /\ SamePair(c, d)
         /\ calls[c].req.endpoint = "settle"
         /\ calls[d].req.endpoint = "settle"
         /\ Concurrent(c, d)) =>
            ~(calls[c].response.ok /\ calls[d].response.ok)

\* C8: at the moment a settle call answers success, its (from, nonce) has
\* not been consumed on the ledger by an earlier transfer.
C8_SettledOnlyIfUnconsumed ==
    [][\A c \in Calls :
          (calls[c].pc = "send" /\ calls'[c].pc = "done"
           /\ calls'[c].response.ok) =>
              consumedBy[PairOf(c)] = NoTx]_vars

\* C9: a settle call writes only after verifyPayment has returned valid in
\* that call; after an invalid result it answers failure with exactly the
\* validator's reason and submits nothing.
C9_NoWriteAfterInvalid ==
    \A c \in Calls :
        calls[c].req.endpoint = "settle" =>
            /\ (calls[c].pc \in {"write", "send"} \/ calls[c].estimated
                \/ Submitted(c) \/ calls[c].response.ok) =>
                   calls[c].verifyResult.isValid
            /\ (calls[c].verifyResult # NoResult
                /\ ~calls[c].verifyResult.isValid) =>
                   /\ calls[c].response =
                         Rejection(400, calls[c].verifyResult.invalidReason)
                   /\ ~Submitted(c)
                   /\ ~calls[c].estimated

\* C9 witness: a settle whose re-verification found the balance too low
\* answered 400 with that reason, and the pool is empty.
C9_Witness ==
    /\ calls["c1"].req.endpoint = "settle"
    /\ Responded("c1")
    /\ calls["c1"].verifyResult = Invalid(InsufficientBalance)
    /\ calls["c1"].response = Rejection(400, InsufficientBalance)
    /\ pool = {}

\* C10: every transfer submitted to the ledger carries the fixed gas
\* ceiling, and no estimate was asked for on its way, on each write path.
C10_FixedGasEverywhere ==
    \A tx \in pool : tx.gas = FIXED_GAS_LIMIT /\ ~tx.estimated

\* The call met a fault inside verifyPayment: while building the message,
\* recovering the signer or reading the ledger.
PipelineFault(c) ==
    /\ calls[c].fault \notin {"none", "JSON Parse error"}
    /\ calls[c].writes = 0
    /\ calls[c].fault # "Wallet client not configured"

\* C11: a throw of the signature recovery or a failed ledger read inside
\* verifyPayment is not propagated: verifyPayment returns an invalid result
\* with the reason 'Verification error: <cause>', which the handler answers
\* as an ordinary rejection.
C11_FaultsBecomeVerificationError ==
    \A c \in Calls :
        PipelineFault(c) =>
            /\ calls[c].verifyResult =
                  Invalid(VerificationError(calls[c].fault))
            /\ Responded(c)
            /\ calls[c].response =
                  IF calls[c].req.endpoint = "verify"
                  THEN VerifyResponse(200, calls[c].verifyResult)
                  ELSE Rejection(400, calls[c].verifyResult.invalidReason)

\* C11 witness: the nonce read answered, the balance read failed, and the
\* call was answered 'Verification error: HTTP request failed'.
C11_Witness ==
    /\ calls["c1"].nonceUsed = "false"
    /\ calls["c1"].fault = "HTTP request failed"
    /\ calls["c1"].balance = -1
    /\ calls["c1"].response.reason = VerificationError("HTTP request failed")

\* The recovery threw on a signature whose trailing byte is no recovery id.
C11_RecoveryThrows ==
    /\ calls["c1"].fault = "Invalid signature"
    /\ calls["c1"].response.reason = VerificationError("Invalid signature")

\* C12: a settle call calls writeContract at most once; when that call
\* fails (the estimate reverts or cannot be had, the send fails) the settle
\* call answers a failure 'Settlement failed: <cause>' and writes nothing
\* more.
C12_FailedWriteNotRetried ==
    \A c \in Calls :
        /\ calls[c].writes <= 1
        /\ (calls[c].writes = 1 /\ calls[c].fault # "none") =>
              /\ Responded(c)
              /\ calls[c].response =
                    Rejection(500, <<"Settlement failed", calls[c].fault>>)
              /\ ~Submitted(c)

\* C12 witness: the pair was consumed by another transfer after the call's
\* re-verification, the node rejected the call's transfer, and the call
\* answered the failure.
C12_Witness ==
    /\ calls["c1"].writes = 1
    /\ calls["c1"].fault = "execution reverted"
    /\ consumedBy[PairOf("c1")] = <<"third party">>
    /\ calls["c1"].response =
          Rejection(500, <<"Settlement failed", "execution reverted">>)

\* Call c has done nothing but look at its request: no recovery, no clock
\* or ledger read, no estimate, no write.
NoWorkDone(c) ==
    /\ calls[c].recovered = NoAddr
    /\ calls[c].time = -1
    /\ calls[c].nonceUsed = "unread"
    /\ calls[c].balance = -1
    /\ calls[c].verifyResult = NoResult
    /\ calls[c].writes = 0
    /\ ~calls[c].estimated
    /\ ~Submitted(c)

\* C13: in verify and in settle, a payload whose network or scheme is not
\* the configured one is rejected with status 400 before any signature
\* recovery, ledger read or ledger write; a network the schema lets through
\* is rejected as 'Unsupported network'.
C13_UnsupportedRejectedFirst ==
    \A c \in Calls :
        (/\ calls[c].pc # "idle"
         /\ calls[c].req.json
         /\ (calls[c].req.payload.network # ConfigNetworkId
             \/ calls[c].req.payload.scheme # ConfigScheme)) =>
            /\ Responded(c)
            /\ calls[c].response.status = 400
            /\ ~calls[c].response.ok
            /\ calls[c].response.reason \in
                  {<<"Invalid request format">>, <<"Unsupported network">>,
                   <<"Unsupported scheme">>}
            /\ (SchemaAccepts(calls[c].req)
                 /\ calls[c].req.payload.network # ConfigNetworkId) =>
                   calls[c].response.reason = <<"Unsupported network">>
            /\ NoWorkDone(c)

\* C13 witness: a settle request for another chain, correctly signed and
\* otherwise scenario A, answered 'Unsupported network' with nothing done.
C13_Witness ==
    /\ calls["c1"].pc = "done"
    /\ calls["c1"].req.endpoint = "settle"
    /\ calls["c1"].req.payload.network = "eip155:1"
    /\ calls["c1"].response = Rejection(400, <<"Unsupported network">>)
    /\ NoWorkDone("c1")

\* C14: the step in which a settle call answers success is the step in
\* which writeContract returns the hash of this call's one submission: the
\* transfer built from the call's own request enters the pool, and the
\* answer carries that hash, the configured network id and the payer that
\* this call's re-verification returned.
C14_SettledCarriesSubmission ==
    [][\A c \in Calls :
          (calls'[c].response.ok /\ ~calls[c].response.ok
           /\ calls'[c].req.endpoint = "settle") =>
              /\ calls[c].pc = "send"
              /\ calls[c].writes = 1
              /\ calls[c].verifyResult.isValid
              /\ calls[c].verifyResult.payer = calls[c].recovered
              /\ pool' \ pool =
                    {writeContract(walletClient,
                        TransferOf(c, calls[c].gas, calls[c].estimated))}
              /\ \A tx \in pool' \ pool : tx.id = TxHash(c)
              /\ calls'[c].response =
                    [status |-> 200, ok |-> TRUE, reason |-> <<>>,
                     payer |-> calls[c].verifyResult.payer,
                     transaction |-> TxHash(c),
                     network |-> ConfigNetworkId]]_vars

\* C14 witness: scenario A settled: the answer names the call's transaction,
\* which is in the pool, the network eip155:1990 and payer A.
C14_Witness ==
    /\ calls["c1"].req = ScenarioA("settle")
    /\ calls["c1"].response.ok
    /\ calls["c1"].response.transaction = TxHash("c1")
    /\ calls["c1"].response.network = "eip155:1990"
    /\ calls["c1"].response.payer.id = "aa"
    /\ \E tx \in pool : tx.id = TxHash("c1")

\* C15: a verify call never calls writeContract, asks for no estimate and
\* has no transaction in the pool; and the consumption state of a pair
\* changes only in a step of the ledger, from unused to used, when it
\* executes a transfer a settle call submitted or a third party's transfer:
\* no step of a handler changes it.
C15_OnlyLedgerConsumes ==
    [][/\ \A c \in Calls :
             calls'[c].req.endpoint = "verify" =>
                /\ calls'[c].writes = 0
                /\ ~calls'[c].estimated
                /\ \A tx \in pool' : tx.id # TxHash(c)
       /\ \A p \in Pairs :
             consumedBy'[p] # consumedBy[p] =>
                /\ calls' = calls
                /\ consumedBy[p] = NoTx
                /\ \/ consumedBy'[p] = <<"third party">>
                   \/ \E tx \in pool \ pool' :
                         /\ tx.id = consumedBy'[p]
                         /\ <<tx.from.id, tx.nonce>> = p
                         /\ \E c \in Calls :
                               /\ tx.id = TxHash(c)
                               /\ calls[c].req.endpoint = "settle"]_vars

\* C15 witness: c1's verify was answered valid and left nothing on the
\* ledger; the pair was consumed when the ledger executed the transfer
\* that c2's settle had submitted.
C15_Witness ==
    /\ calls["c1"].req = ScenarioA("verify")
    /\ calls["c1"].response.ok
    /\ calls["c2"].req = ScenarioA("settle")
    /\ consumedBy[PairOf("c2")] = TxHash("c2")
    /\ pool = {}

\* Everything call c took in from outside: its request, and what the
\* recovery, the clock, the ledger reads, the estimate and the send gave it.
Observed(c) ==
    [req |-> calls[c].req, recovered |-> calls[c].recovered,
     time |-> calls[c].time, nonceUsed |-> calls[c].nonceUsed,
     balance |-> calls[c].balance, gas |-> calls[c].gas,
     estimated |-> calls[c].estimated, fault |-> calls[c].fault,
     writes |-> calls[c].writes]

\* The answer of call c, with the transaction hash replaced by whether
\* there is one (the hash names the call's own transaction).
Outcome(c) ==
    [verifyResult |-> calls[c].verifyResult,
     response |-> [calls[c].response EXCEPT !.transaction = NoTx],
     hasTransaction |-> calls[c].response.transaction # NoTx]

\* C16: the facilitator keeps nothing between requests.  Every value a call
\* takes in is read at that moment (the clock is the clock, the nonce state
\* and the balance are the ledger's at the step of the read, never a copy
\* from an earlier call), and two calls that took in the same things under
\* the same configuration answer the same, whichever was served first and
\* whatever else was served before.
C16_Stateless ==
    [][/\ \A c \in Calls :
             /\ calls'[c].time # calls[c].time => calls'[c].time = now
             /\ calls'[c].nonceUsed # calls[c].nonceUsed =>
                   calls'[c].nonceUsed =
                       IF consumedBy[PairOf(c)] # NoTx THEN "true" ELSE "false"
             /\ calls'[c].balance # calls[c].balance =>
                   calls'[c].balance = balanceOf[AuthOf(c).from.id]
       /\ \A c, d \in Calls :
             (calls'[c].pc = "done" /\ calls'[d].pc = "done"
              /\ Observed(c)' = Observed(d)') => Outcome(c)' = Outcome(d)']_vars

\* C16 witness: c1's verify of scenario A was answered valid; the pair was
\* then consumed by another transfer; c2, the same request served after c1
\* had finished, read the ledger again and was told the nonce is used.
C16_Witness ==
    /\ calls["c1"].req = ScenarioA("verify")
    /\ calls["c1"].response.ok
    /\ calls["c2"].req = ScenarioA("verify")
    /\ "c1" \in calls["c2"].doneAtStart
    /\ calls["c2"].consumerAtStart = NoTx
    /\ calls["c2"].response.reason = NonceUsed

\* Call c is at a step of its handler: the guard of one of Recover,
\* ReadNonce, ReadBalance, Write and Send holds, and each of them has an
\* outcome whatever the ledger and the node do.
HasNextStep(c) ==
    calls[c].pc \in {"recover", "nonce", "balance", "write", "send"}

\* C17: a call that has started either has a next step or has answered,
\* and its answer is a structured body: a status of 200, 400 or 500, the
\* flag (isValid / success), and on failure a reason, which names the
\* fault when the call met one.  This holds for a body that is not JSON, a
\* body the schema refuses, every rejection of the pipeline, a failed
\* ledger read and a failed write alike.
C17_AlwaysStructuredResponse ==
    \A c \in Calls :
        /\ InFlight(c) => HasNextStep(c)
        /\ Responded(c) =>
              /\ calls[c].response.status \in {200, 400, 500}
              /\ calls[c].response.ok =>
                    calls[c].response.status = 200
                    /\ calls[c].response.reason = <<>>
                    /\ calls[c].fault = "none"
              /\ ~calls[c].response.ok =>
                    /\ Len(calls[c].response.reason) >= 1
                    /\ calls[c].fault # "none" =>
                          calls[c].response.reason
                              [Len(calls[c].response.reason)] = calls[c].fault

\* C17 witness: a verify request whose body is not JSON is answered 500
\* with { isValid: false, invalidReason: 'Server error: ...' }.
C17_Witness ==
    /\ calls["c1"].req.endpoint = "verify"
    /\ ~calls["c1"].req.json
    /\ calls["c1"].response =
          Rejection(500, <<"Server error", "JSON Parse error">>)

\* A settle without a wallet client is answered 500 'Settlement failed'.
C17_NoWalletAnswered ==
    /\ walletClient = "null"
    /\ calls["c1"].verifyResult.isValid
    /\ calls["c1"].response =
          Rejection(500, <<"Settlement failed", "Wallet client not configured">>)

\* parseSignature has returned for a blob of 65 bytes.
Split65 ==
    /\ Len(split) = 1
    /\ split[1].out # <<>>
    /\ SignatureLength(split[1].sig) = 65

\* r and s of the result are the first 64 bytes of the blob.
SplitKeepsRS ==
    split[1].out[1].rs =
        [signer |-> split[1].sig.signer, signed |-> split[1].sig.signed,
         parity |-> split[1].sig.parity, len |-> 64]

\* C18 as stated: splitting a 65-byte signature yields r and s from the
\* first 64 bytes and v from byte 64, with v always in {27, 28}: 0 and 1
\* become 27 and 28, 27 and 28 stay.
C18_SplitAsStated ==
    Split65 =>
        LET byte == split[1].sig.vbyte
            v == split[1].out[1].v
        IN  /\ SplitKeepsRS
            /\ ~v.nan /\ v.n \in {27, 28}
            /\ byte \in {0, 1} => v.n = byte + 27
            /\ byte \in {27, 28} => v.n = byte

\* C18 amended: splitting a 65-byte signature yields r and s from the
\* first 64 bytes and v from byte 64; v is in {27, 28} exactly when byte 64
\* is 0, 1, 27 or 28 (0 and 1 become 27 and 28, 27 and 28 stay); any other
\* byte below 27 is raised by 27 and any byte above 28 is left as it is.
C18_SplitNormalizesWireForms ==
    Split65 =>
        LET byte == split[1].sig.vbyte
            v == split[1].out[1].v
        IN  /\ SplitKeepsRS
            /\ ~v.nan
            /\ byte \in {0, 1} => v.n = byte + 27
            /\ byte \in {27, 28} => v.n = byte
            /\ v.n \in {27, 28} <=> byte \in {0, 1, 27, 28}
            /\ byte < 27 => v.n = byte + 27
            /\ byte >= 27 => v.n = byte

\* C18 witness: a 65-byte blob ending in 0x01 split into r, s and v = 28.
C18_Witness ==
    /\ Split65
    /\ split[1].sig.vbyte = 1
    /\ split[1].out[1].v = Number(28)
    /\ SplitKeepsRS

\* C19 as stated, the split: parseSignature returns nothing for a blob
\* whose length is not 65 bytes.
C19_SplitFailsOnOtherLengths ==
    (Len(split) = 1 /\ SignatureLength(split[1].sig) # 65)
        => split[1].out = <<>>

\* C19 as stated, settle: writeContract is only ever called with the
\* components of a signature blob of exactly 65 bytes.
C19_SettleSubmitsOnly65ByteBlobs ==
    \A c \in Calls :
        calls[c].writes > 0 => SignatureLength(SigOf(c)) = 65

\* The asset of call c's requirements is not the configured token.
OtherAsset(c) == RequirementsOf(c).asset.id # QusdContractAddress.id

\* C20: a request whose requirements.asset is not the configured token
\* address never gets a valid verify result, a successful response or a
\* write, whatever its signature, its other fields and the ledger are.
C20_OtherAssetNeverAccepted ==
    \A c \in Calls :
        (/\ calls[c].pc # "idle"
         /\ calls[c].req.json
         /\ OtherAsset(c))
        => /\ ~calls[c].verifyResult.isValid
           /\ ~calls[c].response.ok
           /\ calls[c].writes = 0
           /\ ~Submitted(c)

\* C20 witness: a request that passes every check but the asset check is
\* answered 'Asset mismatch'.
C20_Witness ==
    \E c \in Calls :
        /\ Responded(c)
        /\ calls[c].req.json
        /\ OtherAsset(c)
        /\ calls[c].recovered # NoAddr
        /\ \A k \in 1..7 : ~Fails(c, k)
        /\ calls[c].balance >= 0
        /\ calls[c].verifyResult = Invalid(AssetMismatch)
        /\ calls[c].response.reason = AssetMismatch

\* C21: every transfer is submitted under the facilitator's own account,
\* never under the payer's, and no step of any request, concurrent ones
\* included, reassigns or changes the wallet client made at start-up.
C21_OwnAccountNeverChanged ==
    [][/\ walletClient' = walletClient
       /\ \A tx \in pool' :
             /\ tx.account = FacilitatorAccount
             /\ tx.account.id # tx.from.id]_vars

\* C21 witness: two settle calls in flight at the same time have both
\* submitted their transfer under the facilitator's account.
C21_Witness ==
    /\ Concurrent("c1", "c2")
    /\ walletClient = "configured"
    /\ \A c \in Calls :
          \E tx \in pool : tx.id = TxHash(c) /\ tx.account = FacilitatorAccount

\* The ledger reads call c has issued are authorizationState then
\* balanceOf, each at most once; none when the signer check or the time
\* check failed; no balanceOf when the nonce was reported used.
ReadsInOrder(c) ==
    /\ calls[c].reads \in {<<>>, <<"authorizationState">>,
                            <<"authorizationState", "balanceOf">>}
    /\ (Fails(c, 1) \/ Fails(c, 2) \/ Fails(c, 3)) => calls[c].reads = <<>>
    /\ calls[c].nonceUsed = "true" => calls[c].reads = <<"authorizationState">>

\* What a read of call c answers in this step is what the ledger holds in
\* this step.
ReadsFresh(c) ==
    /\ (calls[c].nonceUsed = "unread" /\ calls'[c].nonceUsed # "unread") =>
          calls'[c].nonceUsed =
              (IF consumedBy[PairOf(c)] # NoTx THEN "true" ELSE "false")
    /\ (calls[c].balance = -1 /\ calls'[c].balance # -1) =>
          calls'[c].balance = balanceOf[AuthOf(c).from.id]

\* C22: within one verifyPayment call the ledger is read in the order
\* nonce state then balance, each at most once and with the value the
\* ledger holds at the moment of the read; no read is issued when the
\* signer check or the time check fails, and no balance read when the
\* nonce is reported used.
C22_LedgerReadOrder ==
    [][\A c \in Calls : ReadsInOrder(c)' /\ ReadsFresh(c)]_vars

\* C22 witness: a call read the nonce state and then the balance, the
\* ledger having changed since the call arrived, and was answered valid.
C22_Witness ==
    \E c \in Calls :
        /\ Responded(c)
        /\ calls[c].reads = <<"authorizationState", "balanceOf">>
        /\ calls[c].verifyResult.isValid
        /\ calls[c].balance = balanceOf[AuthOf(c).from.id]
        /\ calls[c].time > 0

\* C22 witness of the short paths: a call that failed the time check read
\* nothing.
C22_NoReadAfterTimeFailure ==
    \E c \in Calls :
        /\ Responded(c)
        /\ Fails(c, 2) \/ Fails(c, 3)
        /\ calls[c].reads = <<>>

\* C23: the transfer settle submits carries the request's authorization
\* fields from, to, value, validAfter, validBefore and nonce and the v, r
\* and s split from the request's signature; the amount moved is
\* authorization.value, and nothing comes from the requirements.
C23_TransferCarriesAuthorization ==
    \A c \in Calls : \A tx \in pool :
        tx.id = TxHash(c) =>
            /\ tx.from = AuthOf(c).from
            /\ tx.to = AuthOf(c).to
            /\ tx.value = Decimal(AuthOf(c).value)
            /\ tx.validAfter = Decimal(AuthOf(c).validAfter)
            /\ tx.validBefore = Decimal(AuthOf(c).validBefore)
            /\ tx.nonce = AuthOf(c).nonce
            /\ tx.v = parseSignature(SigOf(c)).v
            /\ tx.rs = parseSignature(SigOf(c)).rs

\* C23 witness: a settle of an authorization of 2 against requirements of
\* 1 submitted a transfer of 2.
C23_Witness ==
    \E c \in Calls : \E tx \in pool :
        /\ tx.id = TxHash(c)
        /\ Decimal(AuthOf(c).value) = 2
        /\ Decimal(RequirementsOf(c).amount) = 1
        /\ tx.value = 2
        /\ tx.to = AuthOf(c).to

\* C24: the validAfter and validBefore the time check compares with now
\* are the unsigned integers placed in the signed message and submitted to
\* the ledger, for every string the schema accepts.
C24_SameIntegersEverywhere ==
    \A c \in Calls :
        TimeChecked(c) =>
            LET auth == AuthOf(c)
                message == TypedMessage(auth)
            IN  /\ parseInt(auth.validAfter) = Number(message.validAfter)
                /\ parseInt(auth.validBefore) = Number(message.validBefore)
                /\ message.validAfter >= 0 /\ message.validBefore >= 0
                /\ \A tx \in pool :
                      tx.id = TxHash(c) =>
                          /\ parseInt(auth.validAfter) = Number(tx.validAfter)
                          /\ parseInt(auth.validBefore) = Number(tx.validBefore)

\* Call c read a balance that covers requirements.amount and not
\* authorization.value.
BalanceBetween(c) ==
    /\ calls[c].balance >= Decimal(RequirementsOf(c).amount)
    /\ calls[c].balance < Decimal(AuthOf(c).value)

\* C25: a valid result guarantees only that the balance read covers
\* requirements.amount: a balance with requirements.amount <= balance <
\* authorization.value is accepted as valid when the other checks pass,
\* and the transfer settle submits for it is of authorization.value.
C25_BalanceCoversRequiredAmountOnly ==
    \A c \in Calls :
        /\ calls[c].verifyResult.isValid =>
              calls[c].balance >= Decimal(RequirementsOf(c).amount)
        /\ (/\ calls[c].balance >= 0
            /\ BalanceBetween(c)
            /\ \A k \in 6..8 : ~Fails(c, k)) =>
              /\ calls[c].verifyResult.isValid
              /\ \A tx \in pool :
                    tx.id = TxHash(c) =>
                        /\ tx.value = Decimal(AuthOf(c).value)
                        /\ tx.value > calls[c].balance

\* C25 witness: a settle whose payer held 1, with 1 required and 2
\* authorized, was answered success and its transfer of 2 is submitted.
C25_Witness ==
    \E c \in Calls : \E tx \in pool :
        /\ Responded(c)
        /\ calls[c].req.endpoint = "settle"
        /\ calls[c].balance = 1
        /\ BalanceBetween(c)
        /\ calls[c].verifyResult.isValid
        /\ calls[c].response.ok
        /\ tx.id = TxHash(c)
        /\ tx.value = 2

\* The arguments of a transfer other than its gas.
TransferArgs(tx) ==
    [from |-> tx.from, to |-> tx.to, value |-> tx.value,
     validAfter |-> tx.validAfter, validBefore |-> tx.validBefore,
     nonce |-> tx.nonce, v |-> tx.v, rs |-> tx.rs]

\* The last call of the estimating client asked for one estimate; when the
\* estimate answered, one transaction was sent with the answer as its gas;
\* when it failed, nothing was sent and the failure was thrown back.
ClientCallEstimatesFirst ==
    framework.via = "client" =>
        /\ Len(framework.estimates) = 1
        /\ LET est == framework.estimates[1]
           IN  IF est.thrown
               THEN framework.sent = {} /\ framework.thrown = est.cause
               ELSE /\ framework.thrown = "none"
                    /\ Cardinality(framework.sent) = 1
                    /\ \A tx \in framework.sent :
                          /\ tx.gas = est.gas
                          /\ tx.estimated

\* C26: in the framework variant's estimating client, the one the exported
\* facilitator is wired to, every writeContract asks eth_estimateGas first
\* and submits with the answer as its gas, whatever gas the caller gave;
\* when the estimate fails the pool is left as it is and the error is
\* thrown back.
C26_ClientEstimatesThenWrites ==
    [][/\ ClientCallEstimatesFirst'
       /\ (framework' # framework /\ framework'.via = "client") =>
             IF framework'.thrown # "none" THEN pool' = pool
             ELSE pool' = pool \cup framework'.sent]_vars

\* C26 witness: a writeContract whose caller gave a gas of its own was
\* sent with the node's estimate instead.
C26_Witness ==
    /\ framework.via = "client"
    /\ framework.callerGas.given
    /\ ~framework.estimates[1].thrown
    /\ \E tx \in framework.sent :
          tx.gas = framework.estimates[1].gas /\ tx.gas # framework.callerGas.gas

\* C26 witness of the failure: the estimate failed, nothing was sent and
\* the caller got the error.
C26_EstimateFailed ==
    /\ framework.via = "client"
    /\ framework.estimates[1].thrown
    /\ framework.sent = {}
    /\ framework.thrown = "execution reverted"
    /\ pool = {}

\* The last call of the fixed-gas wrapper sent one transaction, with gas
\* FIXED_GAS_LIMIT, without an estimate, its other arguments the caller's.
WrapperCallFixesGas ==
    framework.via = "index" =>
        /\ framework.method \in {"writeContract", "sendTransaction"}
        /\ framework.estimates = <<>>
        /\ framework.thrown = "none"
        /\ Cardinality(framework.sent) = 1
        /\ \A tx \in framework.sent : \A request \in framework.request :
              /\ tx.gas = FIXED_GAS_LIMIT
              /\ FIXED_GAS_LIMIT = 1000000
              /\ ~tx.estimated
              /\ TransferArgs(tx) = TransferArgs(request)

\* C27: in the fixed-gas variant every writeContract and every
\* sendTransaction made through the wrapper is submitted with gas equal to
\* FIXED_GAS_LIMIT, whatever gas the caller passed, without an estimate,
\* and with every other argument as the caller passed it.
C27_WrapperFixesGas ==
    [][/\ WrapperCallFixesGas'
       /\ (framework' # framework /\ framework'.via = "index") =>
             pool' = pool \cup framework'.sent]_vars

\* C27 witness: a sendTransaction whose caller passed a gas of 24,000 was
\* submitted with 1,000,000.
C27_Witness ==
    /\ framework.via = "index"
    /\ framework.method = "sendTransaction"
    /\ framework.callerGas = Gas(QIE_GAS_ESTIMATE)
    /\ \E tx \in framework.sent : \E request \in framework.request :
          /\ request.gas = QIE_GAS_ESTIMATE
          /\ tx.gas = FIXED_GAS_LIMIT
          /\ tx \in pool

\* C27 witness for writeContract.
C27_WriteContractFixed ==
    /\ framework.via = "index"
    /\ framework.method = "writeContract"
    /\ framework.callerGas = Gas(QIE_GAS_ESTIMATE)
    /\ \E tx \in framework.sent : tx.gas = FIXED_GAS_LIMIT

\* The requirements that differ from call c's only in the letter case of
\* payTo and asset.
CaseVariants(c) ==
    {PaymentRequirements(Addr(RequirementsOf(c).asset.id, assetMixed),
                         RequirementsOf(c).amount,
                         Addr(RequirementsOf(c).payTo.id, payToMixed),
                         RequirementsOf(c).network,
                         RequirementsOf(c).maxTimeoutSeconds) :
        payToMixed \in BOOLEAN, assetMixed \in BOOLEAN}

\* C28: the recipient and asset checks are case-insensitive: with only the
\* letter case of requirements.payTo or requirements.asset changed, the
\* checks that look at the requirements give the result the call got, and
\* the payer of a valid result is authorization.from up to letter case.
C28_CaseInsensitive ==
    \A c \in Calls :
        /\ calls[c].balance >= 0 =>
              \A requirements \in CaseVariants(c) :
                  ChecksAfterBalance(AuthOf(c), requirements,
                                     calls[c].balance, calls[c].recovered)
                      = calls[c].verifyResult
        /\ calls[c].verifyResult.isValid =>
              /\ toLowerCase(calls[c].verifyResult.payer)
                    = toLowerCase(AuthOf(c).from)
              /\ RequirementsOf(c).payTo.id = AuthOf(c).to.id
              /\ RequirementsOf(c).asset.id = QusdContractAddress.id
        /\ (Responded(c) /\ calls[c].response.ok) =>
              toLowerCase(calls[c].response.payer) = toLowerCase(AuthOf(c).from)

\* C28 witness: a settle answered success although payTo, asset and the
\* payer are written in another letter case than authorization.to, the
\* configured asset and authorization.from.
C28_Witness ==
    \E c \in Calls :
        /\ Responded(c)
        /\ calls[c].req.endpoint = "settle"
        /\ calls[c].response.ok
        /\ RequirementsOf(c).payTo # AuthOf(c).to
        /\ RequirementsOf(c).asset # QusdContractAddress
        /\ calls[c].response.payer # AuthOf(c).from

\* What call c took in, with requirements.network and
\* requirements.maxTimeoutSeconds blanked.
ObservedButNetworkAndTimeout(c) ==
    [endpoint |-> calls[c].req.endpoint, json |-> calls[c].req.json,
     payload |-> calls[c].req.payload,
     scheme |-> RequirementsOf(c).scheme, asset |-> RequirementsOf(c).asset,
     amount |-> RequirementsOf(c).amount, payTo |-> RequirementsOf(c).payTo,
     recovered |-> calls[c].recovered, time |-> calls[c].time,
     nonceUsed |-> calls[c].nonceUsed, balance |-> calls[c].balance,
     gas |-> calls[c].gas, estimated |-> calls[c].estimated,
     fault |-> calls[c].fault, writes |-> calls[c].writes]

\* The request of call c passes the schema and its payload names the
\* configured network and scheme.
Supported(c) ==
    /\ calls[c].req.json
    /\ SchemaAccepts(calls[c].req)
    /\ calls[c].req.payload.network = ConfigNetworkId
    /\ calls[c].req.payload.scheme = ConfigScheme

\* C29: only payload.network and payload.scheme are compared with the
\* configuration: a request whose payload names the configured network and
\* scheme reaches verifyPayment whatever its requirements.network and
\* requirements.maxTimeoutSeconds are, and two requests that differ only
\* in those two fields and took in the same things get the same answer.
C29_NetworkAndTimeoutIgnored ==
    \A c, d \in Calls :
        /\ (Responded(c) /\ Supported(c)) =>
              (calls[c].recovered # NoAddr \/ calls[c].fault # "none")
        /\ (/\ Responded(c) /\ Responded(d)
            /\ ObservedButNetworkAndTimeout(c) = ObservedButNetworkAndTimeout(d))
           => Outcome(c) = Outcome(d)

\* C29 witness: a settle of scenario A and a settle of its twin, having
\* taken in the same things, were both answered success.
C29_Witness ==
    /\ Responded("c1") /\ Responded("c2")
    /\ calls["c1"].req = ScenarioA("settle")
    /\ calls["c2"].req # calls["c1"].req
    /\ RequirementsOf("c2").network # ConfigNetworkId
    /\ RequirementsOf("c2").maxTimeoutSeconds # RequirementsOf("c1").maxTimeoutSeconds
    /\ ObservedButNetworkAndTimeout("c1") = ObservedButNetworkAndTimeout("c2")
    /\ calls["c1"].response.ok /\ calls["c2"].response.ok
    /\ Outcome("c1") = Outcome("c2")

\* C30: every verify and settle call eventually returns a result, given
\* that each ledger call it issues eventually returns or fails; the
\* pipeline has no loop or retry (at most one read of the nonce state, one
\* of the balance, one write) and no timeout of its own (the passing of
\* time alone never ends or changes a call).
C30_EveryCallReturns ==
    /\ \A c \in Calls : (calls[c].pc # "idle") ~> Responded(c)
    /\ [](\A c \in Calls : Len(calls[c].reads) <= 2 /\ calls[c].writes <= 1)
    /\ [][now' # now => calls' = calls]_vars

\* C30 witness: a settle went through both ledger reads and the write and
\* was answered.
C30_Witness ==
    /\ Responded("c1")
    /\ calls["c1"].req.endpoint = "settle"
    /\ Len(calls["c1"].reads) = 2
    /\ calls["c1"].writes = 1
    /\ calls["c1"].response.ok

\* C30 witness of a ledger call that failed: the call was answered with
\* the failure.
C30_FailedReadAnswered ==
    /\ Responded("c1")
    /\ calls["c1"].reads = <<"authorizationState">>
    /\ calls["c1"].fault = "HTTP request failed"
    /\ ~calls["c1"].response.ok

\* The answer of a settle call without a wallet client whose
\* re-verification was valid.
NoWalletFailure ==
    Rejection(500, <<"Settlement failed", "Wallet client not configured">>)

\* C31: with no facilitator private key configured, a settle is still
\* re-verified in full: a failed re-verification is answered 400 with its
\* reason, and a valid one has read the nonce state and the balance and is
\* then answered 500 'Settlement failed: Wallet client not configured';
\* no settle succeeds, writeContract is never called and no transaction
\* reaches the ledger.  GET /supported answers 503 with an error body and
\* no signer address (with a key it answers 200 with the signer address).
C31_NoKeyConfigured ==
    /\ walletClient = "null" =>
          /\ pool = {}
          /\ \A c \in Calls :
                /\ calls[c].writes = 0
                /\ calls[c].req.endpoint = "settle" => ~calls[c].response.ok
                /\ calls[c].pc # "send"
                /\ (Responded(c) /\ calls[c].req.endpoint = "settle"
                    /\ Supported(c)) =>
                      IF calls[c].verifyResult.isValid
                      THEN /\ calls[c].reads = <<"authorizationState", "balanceOf">>
                           /\ calls[c].nonceUsed = "false"
                           /\ calls[c].balance >= 0
                           /\ calls[c].response = NoWalletFailure
                      ELSE calls[c].response =
                              Rejection(400, calls[c].verifyResult.invalidReason)
          /\ supported # NoSupportedCall =>
                supported =
                    SupportedCall(503, "Facilitator not properly configured", {})
    /\ (walletClient = "configured" /\ supported # NoSupportedCall) =>
          /\ supported.status = 200
          /\ \A body \in supported.body : body.signerAddress = FacilitatorAccount
          /\ supported.body # {}

\* C31 witness: without a key, a settle of scenario A was re-verified as
\* valid after both ledger reads and answered 'Wallet client not
\* configured', and GET /supported was answered 503.
C31_Witness ==
    /\ walletClient = "null"
    /\ Responded("c1")
    /\ calls["c1"].req = ScenarioA("settle")
    /\ calls["c1"].verifyResult.isValid
    /\ calls["c1"].reads = <<"authorizationState", "balanceOf">>
    /\ calls["c1"].response = NoWalletFailure
    /\ calls["c1"].writes = 0
    /\ pool = {}
    /\ supported.status = 503
    /\ supported.body = {}

====
